---------------------------- MODULE Spec2Model ----------------------------
(***************************************************************************)
(* A model of the xo-math geometric kernel: Vector2, Vector3 (four SSE     *)
(* lanes), Matrix4x4 and Quaternion.                                       *)
(*                                                                         *)
(* Numbers.  A float is modelled by an exact rational <<n, d>> in lowest   *)
(* terms with d > 0, so every + - * / of the source is computed exactly    *)
(* and an identity of the source is an identity of the model.  Angles in   *)
(* radians are stored as their coefficient of pi (pi/2 is <<1, 2>>), so    *)
(* that Deg2Rad and Rad2Deg are real multiplications; Sin, Cos and ATan2   *)
(* are exact on the quarter and eighth turns the inputs are drawn from.    *)
(* Sqrt is exact on the squares of rationals, which is what the inputs     *)
(* are chosen to produce.                                                  *)
(*                                                                         *)
(* State.  The library is a set of operations on caller-owned values.  A   *)
(* behaviour is one call: the build configuration, the operation called,   *)
(* the caller's values before the call (arg) and, once the call has        *)
(* returned (pc = "done"), after it (res: the receiver, the out-parameters *)
(* and the returned value).                                                *)
(***************************************************************************)
EXTENDS Integers, Sequences, FiniteSets, TLC

VARIABLES build, pc, op, arg, res

vars == <<build, pc, op, arg, res>>

---------------------------------------------------------------------------
(* Bounds of the input sets.                                               *)

\* Unary vector inputs have coordinates u/2 with u in -MaxHalf..MaxHalf.
MaxHalf == 4
\* Binary vector inputs have integer coordinates in -MaxCoord..MaxCoord.
MaxCoord == 1
\* Unit quaternions are the normalised integer 4-tuples in -MaxQuat..MaxQuat.
MaxQuat == 3
\* Matrix rows are scaled by 0..MaxScale.
MaxScale == 2
\* Angles are quarter turns, -MaxTurns..MaxTurns of them.
MaxTurns == 2
\* The fourth lane of a Vector3 input holds 0..MaxLaneW.
MaxLaneW == 1

---------------------------------------------------------------------------
(* Exact rational arithmetic.                                              *)

Abs(n) == IF n < 0 THEN -n ELSE n

RECURSIVE GCD(_, _)
GCD(a, b) == IF b = 0 THEN a ELSE GCD(b, a % b)

Rat(n, d) ==
    LET s == IF d < 0 THEN -1 ELSE 1
        g == GCD(Abs(n), Abs(d))
    IN  <<(s * n) \div g, (s * d) \div g>>

I(n) == <<n, 1>>

R0 == <<0, 1>>
R1 == <<1, 1>>
RHalf == <<1, 2>>
RTwo == <<2, 1>>

RAdd(a, b) ==
    LET g == GCD(a[2], b[2])
    IN  Rat(a[1] * (b[2] \div g) + b[1] * (a[2] \div g), (a[2] \div g) * b[2])

RNeg(a) == <<-a[1], a[2]>>

RSub(a, b) == RAdd(a, RNeg(b))

RMul(a, b) ==
    LET g1 == GCD(Abs(a[1]), b[2])
        g2 == GCD(Abs(b[1]), a[2])
    IN  IF a[1] = 0 \/ b[1] = 0 THEN R0
        ELSE <<(a[1] \div g1) * (b[1] \div g2), (a[2] \div g2) * (b[2] \div g1)>>

RInv(a) == IF a[1] < 0 THEN <<-a[2], -a[1]>> ELSE <<a[2], a[1]>>

\* x / 0 is not a number the model carries; the guards of the source keep
\* every division of the model away from it.
RDiv(a, b) == RMul(a, RInv(b))

RECURSIVE FracLe(_, _, _, _)
\* a/b <= c/d for positive b and d, by whole parts and then the reciprocals
\* of the fractional parts, so that no product is formed.
FracLe(a, b, c, d) ==
    IF a \div b # c \div d THEN a \div b < c \div d
    ELSE IF a % b = 0 THEN TRUE
    ELSE IF c % d = 0 THEN FALSE
    ELSE FracLe(d, c % d, b, a % b)

RLe(a, b) ==
    IF Abs(a[1]) < 32768 /\ Abs(b[1]) < 32768 /\ a[2] < 32768 /\ b[2] < 32768
    THEN a[1] * b[2] <= b[1] * a[2]
    ELSE FracLe(a[1], a[2], b[1], b[2])

RLt(a, b) == RLe(a, b) /\ a # b

RGe(a, b) == RLe(b, a)

RGt(a, b) == RLt(b, a)

RAbs(a) == <<Abs(a[1]), a[2]>>

---------------------------------------------------------------------------
(* Scalar support functions (xo-math.h, not among the sources).            *)

\* FLT_EPSILON, 2^-23.
FloatEpsilon == <<1, 8388608>>

\* |x - y| within the tolerance.
CloseEnough(x, y, tolerance) == RLe(RAbs(RSub(y, x)), tolerance)

RECURSIVE ISqrtBetween(_, _, _)
\* The largest r in lo..hi with r*r <= n (lo*lo <= n assumed).
ISqrtBetween(n, lo, hi) ==
    IF lo >= hi THEN lo
    ELSE LET mid == (lo + hi + 1) \div 2
         IN  IF mid <= n \div mid THEN ISqrtBetween(n, mid, hi)
             ELSE ISqrtBetween(n, lo, mid - 1)

ISqrt(n) == ISqrtBetween(n, 0, IF n < 46340 THEN n ELSE 46340)

IsSquare(n) == n >= 0 /\ ISqrt(n) * ISqrt(n) = n

\* Fractional units of the square root of a rational that is no square.
SqrtDen == 1024

RECURSIVE SqrtBetween(_, _, _)
\* The largest r in lo..hi with (r/SqrtDen)^2 <= a.
SqrtBetween(a, lo, hi) ==
    IF lo >= hi THEN lo
    ELSE LET mid == (lo + hi + 1) \div 2
         IN  IF RLe(Rat(mid * mid, SqrtDen * SqrtDen), a) THEN SqrtBetween(a, mid, hi)
             ELSE SqrtBetween(a, lo, mid - 1)

\* The square root: exact on the square of a rational, otherwise rounded
\* down to a multiple of 1/SqrtDen.
Sqrt(a) ==
    IF IsSquare(a[1]) /\ IsSquare(a[2]) THEN <<ISqrt(a[1]), ISqrt(a[2])>>
    ELSE Rat(SqrtBetween(a, 0, SqrtDen * (ISqrt(a[1] \div a[2]) + 1)), SqrtDen)

\* pi/180 and 180/pi, with radians stored as coefficients of pi.
Deg2Rad == <<1, 180>>
Rad2Deg == <<180, 1>>

\* The quarter turn an angle (a coefficient of pi) is, 0..3.
Quarter(r) == ((2 * r[1]) \div r[2]) % 4

IsQuarterTurn(r) == (2 * r[1]) % r[2] = 0

Sin(r) == CASE Quarter(r) = 0 -> R0
            [] Quarter(r) = 1 -> R1
            [] Quarter(r) = 2 -> R0
            [] Quarter(r) = 3 -> I(-1)

Cos(r) == CASE Quarter(r) = 0 -> R1
            [] Quarter(r) = 1 -> R0
            [] Quarter(r) = 2 -> I(-1)
            [] Quarter(r) = 3 -> R0

\* acos, as a coefficient of pi: exact where the cosine is 1, 1/2, 0, -1/2
\* or -1, interpolated between these, and a NaN outside [-1, 1].
ACos(x) ==
    IF RGt(x, R1) \/ RLt(x, I(-1)) THEN [nan |-> TRUE]
    ELSE IF RGe(x, RHalf) THEN RMul(<<2, 3>>, RSub(R1, x))
    ELSE IF RGe(x, <<-1, 2>>) THEN RSub(RHalf, RMul(<<1, 3>>, x))
    ELSE RSub(R1, RMul(<<2, 3>>, RAdd(R1, x)))

\* atan2 on the eight compass directions and at the origin, in (-pi, pi].
ATan2(y, x) ==
    CASE y[1] = 0 /\ x[1] >= 0 -> R0
      [] y[1] = 0 /\ x[1] < 0 -> R1
      [] x[1] = 0 /\ y[1] > 0 -> <<1, 2>>
      [] x[1] = 0 /\ y[1] < 0 -> <<-1, 2>>
      [] x[1] > 0 /\ y = x -> <<1, 4>>
      [] x[1] > 0 /\ y = RNeg(x) -> <<-1, 4>>
      [] x[1] < 0 /\ y = RNeg(x) -> <<3, 4>>
      [] x[1] < 0 /\ y = x -> <<-3, 4>>

IsCompass(y, x) == y[1] = 0 \/ x[1] = 0 \/ RAbs(y) = RAbs(x)

\* Atan2 as Vector3 calls it: the angle where ATan2 is exact, and elsewhere
\* the pair it was called with.
Atan2(y, x) == IF IsCompass(y, x) THEN ATan2(y, x) ELSE [atan2 |-> <<y, x>>]


---------------------------------------------------------------------------
(* SSE registers: a __m128 is the tuple of its four lanes, lane 0 first.   *)

mm_set_ps(e3, e2, e1, e0) == <<e0, e1, e2, e3>>

mm_set1_ps(f) == <<f, f, f, f>>

mm_setzero_ps == <<R0, R0, R0, R0>>

mm_add_ps(a, b) == [i \in 1..4 |-> RAdd(a[i], b[i])]

mm_sub_ps(a, b) == [i \in 1..4 |-> RSub(a[i], b[i])]

mm_mul_ps(a, b) == [i \in 1..4 |-> RMul(a[i], b[i])]

\* A lane is kept where the mask lane is all ones and cleared where it is 0.
mm_and_ps(a, mask) == [i \in 1..4 |-> IF mask[i] THEN a[i] ELSE R0]

mm_hadd_ps(a, b) ==
    <<RAdd(a[1], a[2]), RAdd(a[3], a[4]), RAdd(b[1], b[2]), RAdd(b[3], b[4])>>

mm_cvtss_f32(a) == a[1]

\* _MM_SHUFFLE(z, y, x, w): the four two-bit selectors packed in a byte.
MM_SHUFFLE(fp3, fp2, fp1, fp0) == fp3 * 64 + fp2 * 16 + fp1 * 4 + fp0

mm_shuffle_ps(a, b, imm) ==
    <<a[(imm % 4) + 1],
      a[((imm \div 4) % 4) + 1],
      b[((imm \div 16) % 4) + 1],
      b[((imm \div 64) % 4) + 1]>>

---------------------------------------------------------------------------
(* Vector3 (Vector3.h): x, y, z and the fourth lane w share one register.  *)

IDX_X == 0
IDX_Y == 1
IDX_Z == 2
IDX_W == 3

\* _mm_set_epi32(0, 0xffffffff, 0xffffffff, 0xffffffff)
MASK == <<TRUE, TRUE, TRUE, FALSE>>

Vector3_Epsilon == RAdd(RAdd(FloatEpsilon, FloatEpsilon), FloatEpsilon)

Vector3_xyz(x, y, z) == mm_set_ps(R0, z, y, x)

Vector3_f(f) == mm_set1_ps(f)

Vector3_Zero == Vector3_xyz(R0, R0, R0)
Vector3_UnitX == Vector3_xyz(R1, R0, R0)
Vector3_UnitY == Vector3_xyz(R0, R1, R0)
Vector3_UnitZ == Vector3_xyz(R0, R0, R1)
Vector3_Up == Vector3_xyz(R0, R1, R0)

\* VEC3D_SIMPLE_OP: the operators apply the intrinsic lane by lane; a float
\* operand is broadcast to the four lanes.
Vector3_Add(a, b) == mm_add_ps(a, b)

Vector3_Sub(a, b) == mm_sub_ps(a, b)

Vector3_MulF(a, f) == mm_mul_ps(a, mm_set1_ps(f))

Vector3_Neg(a) == mm_mul_ps(a, mm_set1_ps(I(-1)))

\* Vector3_MagnitudeSquared without the mask, the slip of a horizontal add
\* over all four lanes.
Vector3_MagnitudeSquared_Unmasked(v) ==
    LET square0 == mm_mul_ps(v, v)
        square1 == mm_hadd_ps(square0, square0)
        square2 == mm_hadd_ps(square1, square1)
    IN  mm_cvtss_f32(square2)

Vector3_MagnitudeSquared(v) ==
    LET square0 == mm_and_ps(mm_mul_ps(v, v), MASK)
        square1 == mm_hadd_ps(square0, square0)
        square2 == mm_hadd_ps(square1, square1)
    IN  mm_cvtss_f32(square2)

Vector3_Magnitude(v) ==
    LET square0 == mm_and_ps(mm_mul_ps(v, v), MASK)
        square1 == mm_hadd_ps(square0, square0)
        square2 == mm_hadd_ps(square1, square1)
    IN  Sqrt(mm_cvtss_f32(square2))

\* Normalize() and Normalized() have the same body, on *this and on a copy.
Vector3_Normalized(v) ==
    LET magnitude == Vector3_MagnitudeSquared(v)
    IN  IF RLe(RSub(magnitude, R1), Vector3_Epsilon) THEN v
        ELSE IF RLt(Sqrt(magnitude), Vector3_Epsilon) THEN v
        ELSE Vector3_MulF(v, RDiv(R1, Sqrt(magnitude)))

Vector3_Normalize(v) ==
    LET magnitude == Vector3_MagnitudeSquared(v)
    IN  IF RLe(RSub(magnitude, R1), Vector3_Epsilon) THEN v
        ELSE IF RLt(Sqrt(magnitude), Vector3_Epsilon) THEN v
        ELSE Vector3_MulF(v, RDiv(R1, Sqrt(magnitude)))

Vector3_IsZero(v) == RLe(Vector3_MagnitudeSquared(v), Vector3_Epsilon)

Vector3_IsNormalized(v) ==
    RLe(RSub(Vector3_MagnitudeSquared(v), R1), Vector3_Epsilon)

\* Vector3_Max taking the larger of each lane, the slip of a per-component
\* maximum.
Vector3_Max_PerComponent(a, b) == [i \in 1..4 |-> IF RGe(a[i], b[i]) THEN a[i] ELSE b[i]]

Vector3_Max(a, b) ==
    IF RGe(Vector3_MagnitudeSquared(a), Vector3_MagnitudeSquared(b)) THEN a ELSE b

Vector3_Min(a, b) ==
    IF RLe(Vector3_MagnitudeSquared(a), Vector3_MagnitudeSquared(b)) THEN a ELSE b

Vector3_Dot(a, b) ==
    LET d0 == mm_and_ps(mm_mul_ps(a, b), MASK)
        d1 == mm_hadd_ps(d0, d0)
        d2 == mm_hadd_ps(d1, d1)
    IN  mm_cvtss_f32(d2)

\* Vector3_Cross with the shuffles of the two products exchanged, the slip
\* that yields b x a.
Vector3_Cross_Exchanged(a, b) ==
    LET l == mm_mul_ps(
                 mm_shuffle_ps(a, a, MM_SHUFFLE(IDX_W, IDX_Y, IDX_X, IDX_Z)),
                 mm_shuffle_ps(b, b, MM_SHUFFLE(IDX_W, IDX_X, IDX_Z, IDX_Y)))
        r == mm_mul_ps(
                 mm_shuffle_ps(a, a, MM_SHUFFLE(IDX_W, IDX_X, IDX_Z, IDX_Y)),
                 mm_shuffle_ps(b, b, MM_SHUFFLE(IDX_W, IDX_Y, IDX_X, IDX_Z)))
    IN  mm_sub_ps(l, r)

Vector3_Cross(a, b) ==
    LET l == mm_mul_ps(
                 mm_shuffle_ps(a, a, MM_SHUFFLE(IDX_W, IDX_X, IDX_Z, IDX_Y)),
                 mm_shuffle_ps(b, b, MM_SHUFFLE(IDX_W, IDX_Y, IDX_X, IDX_Z)))
        r == mm_mul_ps(
                 mm_shuffle_ps(a, a, MM_SHUFFLE(IDX_W, IDX_Y, IDX_X, IDX_Z)),
                 mm_shuffle_ps(b, b, MM_SHUFFLE(IDX_W, IDX_X, IDX_Z, IDX_Y)))
    IN  mm_sub_ps(l, r)

\* AngleRadians(a, b): lines 174-180 square, mask and add the lanes of the
\* cross product as MagnitudeSquared does those of *this.
Vector3_AngleRadians(a, b) ==
    Atan2(RAdd(Sqrt(Vector3_MagnitudeSquared(Vector3_Cross(a, b))), Vector3_Epsilon),
          Vector3_Dot(a, b))

Vector3_Lerp(a, b, t) == Vector3_Add(a, Vector3_MulF(Vector3_Sub(b, a), t))

---------------------------------------------------------------------------
(* Vector2 (Vector2.h, Vector2Methods.h): the pair <<x, y>>.               *)

Vector2_Epsilon == RMul(FloatEpsilon, RTwo)

Vector2_UnitX == <<R1, R0>>
Vector2_UnitY == <<R0, R1>>
Vector2_Zero == <<R0, R0>>

Vector2_Add(a, b) == <<RAdd(a[1], b[1]), RAdd(a[2], b[2])>>

Vector2_Sub(a, b) == <<RSub(a[1], b[1]), RSub(a[2], b[2])>>

Vector2_MulF(a, f) == <<RMul(a[1], f), RMul(a[2], f)>>

Vector2_DivF(a, f) == <<RDiv(a[1], f), RDiv(a[2], f)>>

Vector2_MagnitudeSquared(v) == RAdd(RMul(v[1], v[1]), RMul(v[2], v[2]))

Vector2_Magnitude(v) == Sqrt(RAdd(RMul(v[1], v[1]), RMul(v[2], v[2])))

Vector2_Normalize(v) ==
    LET magnitude == Vector2_MagnitudeSquared(v)
    IN  IF CloseEnough(magnitude, R1, Vector2_Epsilon) THEN v
        ELSE IF CloseEnough(magnitude, R0, Vector2_Epsilon) THEN v
        ELSE Vector2_DivF(v, Sqrt(magnitude))

Vector2_Normalized(v) == Vector2_Normalize(v)

Vector2_IsZero(v) == CloseEnough(Vector2_MagnitudeSquared(v), R0, Vector2_Epsilon)

Vector2_IsNormalized(v) ==
    CloseEnough(Vector2_MagnitudeSquared(v), R1, Vector2_Epsilon)

Vector2_Dot(a, b) == RAdd(RMul(a[1], b[1]), RMul(a[2], b[2]))

Vector2_Cross(a, b) == RSub(RMul(a[1], b[2]), RMul(a[2], b[1]))

Vector2_AngleRadians(a, b) == RNeg(ATan2(Vector2_Cross(a, b), Vector2_Dot(a, b)))

Vector2_AngleDegrees(a, b) == RMul(Vector2_AngleRadians(a, b), Rad2Deg)

\* Max(a, b, outVec) and Min(a, b, outVec): outVec after the call.
Vector2_Max(a, b) ==
    IF RGe(Vector2_MagnitudeSquared(a), Vector2_MagnitudeSquared(b)) THEN a ELSE b

Vector2_Min(a, b) ==
    IF RLt(Vector2_MagnitudeSquared(a), Vector2_MagnitudeSquared(b)) THEN a ELSE b

\* Max(a, b) and Min(a, b) by value: the temporary the out form has filled.
Vector2_MaxValue(a, b) == Vector2_Max(a, b)

Vector2_MinValue(a, b) == Vector2_Min(a, b)

\* Vector2_Lerp with t clamped to [0, 1], the slip of a clamping lerp.
Vector2_Lerp_Clamped(a, b, t) ==
    IF RLe(t, Vector2_Epsilon) THEN a
    ELSE IF RGe(t, RSub(R1, Vector2_Epsilon)) THEN b
    ELSE Vector2_Add(a, Vector2_MulF(Vector2_Sub(b, a), t))

\* The out-parameter form: the value Set() leaves in outVec.
Vector2_Lerp(a, b, t) ==
    IF CloseEnough(t, R0, Vector2_Epsilon) THEN a
    ELSE IF CloseEnough(t, R1, Vector2_Epsilon) THEN b
    ELSE Vector2_Add(a, Vector2_MulF(Vector2_Sub(b, a), t))

\* The return-by-value form goes through a temporary and the form above.
Vector2_LerpValue(a, b, t) == Vector2_Lerp(a, b, t)

---------------------------------------------------------------------------
(* Vector4 (not among the sources): the tuple <<x, y, z, w>>.              *)

Vector4_xyzw(x, y, z, w) == <<x, y, z, w>>

Vector4_UnitW == <<R0, R0, R0, R1>>

Vector4_Add(a, b) == [i \in 1..4 |-> RAdd(a[i], b[i])]

Vector4_Mul(a, b) == [i \in 1..4 |-> RMul(a[i], b[i])]

Vector4_MulF(a, f) == [i \in 1..4 |-> RMul(a[i], f)]

Vector4_DivF(a, f) == [i \in 1..4 |-> RDiv(a[i], f)]

Vector4_Sum(a) == RAdd(RAdd(a[1], a[2]), RAdd(a[3], a[4]))

\* Vector3(const Vector4&): narrowing drops the trailing component.
Vector3_v4(v) == Vector3_xyz(v[1], v[2], v[3])

\* The widening Transform applies to its Vector3 argument: homogeneous w = 1.
Vector4_point(v) == <<v[1], v[2], v[3], R1>>

---------------------------------------------------------------------------
(* Matrix4x4 (Matrix4x4Methods.h): the tuple of its four rows r[0..3].     *)

Matrix4x4_16(a0, b0, c0, d0, a1, b1, c1, d1, a2, b2, c2, d2, a3, b3, c3, d3) ==
    <<Vector4_xyzw(a0, b0, c0, d0),
      Vector4_xyzw(a1, b1, c1, d1),
      Vector4_xyzw(a2, b2, c2, d2),
      Vector4_xyzw(a3, b3, c3, d3)>>

\* operator*(Matrix4x4): the row-times-column product.
Matrix4x4_Mul(a, b) ==
    [i \in 1..4 |-> [j \in 1..4 |->
        RAdd(RAdd(RMul(a[i][1], b[1][j]), RMul(a[i][2], b[2][j])),
             RAdd(RMul(a[i][3], b[3][j]), RMul(a[i][4], b[4][j])))]]

\* operator*(Vector4): each row times the vector, summed.
Matrix4x4_MulV(m, v) == [i \in 1..4 |-> Vector4_Sum(Vector4_Mul(m[i], v))]

Matrix4x4_q(q) ==
    LET q2 == Vector4_Add(q, q)
        qq2 == Vector4_Mul(q, q2)
        wq2 == Vector4_MulF(q2, q[4])
        xy2 == RMul(q[1], q2[2])
        xz2 == RMul(q[1], q2[3])
        yz2 == RMul(q[2], q2[3])
    IN  <<Vector4_xyzw(RSub(RSub(R1, qq2[2]), qq2[3]), RAdd(xy2, wq2[3]),
                       RSub(xz2, wq2[2]), R0),
          Vector4_xyzw(RSub(xy2, wq2[3]), RSub(RSub(R1, qq2[1]), qq2[3]),
                       RAdd(yz2, wq2[1]), R0),
          Vector4_xyzw(RAdd(xz2, wq2[2]), RSub(yz2, wq2[1]),
                       RSub(RSub(R1, qq2[1]), qq2[2]), R0),
          Vector4_UnitW>>

\* Lines 314-319: the matrix LookAtFromPosition assigns to m, given the
\* three axes.
Matrix4x4_LookAtFromPositionAxes(xAxis, yAxis, zAxis, from) ==
    Matrix4x4_16(xAxis[1], yAxis[1], zAxis[1], R0,
                 xAxis[2], yAxis[2], zAxis[2], R0,
                 xAxis[3], yAxis[3], zAxis[3], R0,
                 RNeg(Vector3_Dot(xAxis, from)), RNeg(Vector3_Dot(yAxis, from)),
                 RNeg(Vector3_Dot(zAxis, from)), R1)

\* Lines 312-313: xAxis is given, yAxis = Cross(zAxis, xAxis).
Matrix4x4_LookAtFromPositionSide(xAxis, zAxis, from) ==
    Matrix4x4_LookAtFromPositionAxes(xAxis, Vector3_Cross(zAxis, xAxis), zAxis, from)

\* LookAtFromPosition(from, to, up, m): m after the call.
Matrix4x4_LookAtFromPosition(from, to, up) ==
    Matrix4x4_LookAtFromPositionSide(
        Vector3_Normalized(Vector3_Cross(up, Vector3_Normalized(Vector3_Sub(to, from)))),
        Vector3_Normalized(Vector3_Sub(to, from)), from)

\* Lines 330-335: the matrix LookAtFromDirection assigns to m, given the
\* three axes.
Matrix4x4_LookAtFromDirectionAxes(xAxis, yAxis, zAxis) ==
    Matrix4x4_16(xAxis[1], yAxis[1], zAxis[1], R0,
                 xAxis[2], yAxis[2], zAxis[2], R0,
                 xAxis[3], yAxis[3], zAxis[3], R0,
                 R0, R0, R0, R1)

\* Lines 328-329: xAxis is given, yAxis = Cross(zAxis, xAxis).
Matrix4x4_LookAtFromDirectionSide(xAxis, zAxis) ==
    Matrix4x4_LookAtFromDirectionAxes(xAxis, Vector3_Cross(zAxis, xAxis), zAxis)

\* LookAtFromDirection(direction, up, m): m after the call.
Matrix4x4_LookAtFromDirection(direction, up) ==
    Matrix4x4_LookAtFromDirectionSide(
        Vector3_Normalized(Vector3_Cross(up, Vector3_Normalized(direction))),
        Vector3_Normalized(direction))

\* _mm_unpacklo_ps, _mm_unpackhi_ps, _mm_movelh_ps and _mm_movehl_ps, of
\* which xmmintrin.h builds _MM_TRANSPOSE4_PS.
mm_unpacklo_ps(a, b) == <<a[1], b[1], a[2], b[2]>>

mm_unpackhi_ps(a, b) == <<a[3], b[3], a[4], b[4]>>

mm_movelh_ps(a, b) == <<a[1], a[2], b[1], b[2]>>

mm_movehl_ps(a, b) == <<b[3], b[4], a[3], a[4]>>

\* _MM_TRANSPOSE4_PS(row0, row1, row2, row3): the four rows after it.
MM_TRANSPOSE4_PS(row0, row1, row2, row3) ==
    <<mm_movelh_ps(mm_unpacklo_ps(row0, row1), mm_unpacklo_ps(row2, row3)),
      mm_movehl_ps(mm_unpacklo_ps(row2, row3), mm_unpacklo_ps(row0, row1)),
      mm_movelh_ps(mm_unpackhi_ps(row0, row1), mm_unpackhi_ps(row2, row3)),
      mm_movehl_ps(mm_unpackhi_ps(row2, row3), mm_unpackhi_ps(row0, row1))>>

\* _XO_TRANSPOSE_SWAP(i, j): t = r[i][j]; r[i][j] = r[j][i]; r[j][i] = t.
XO_TRANSPOSE_SWAP(r, i, j) ==
    [r EXCEPT ![i + 1][j + 1] = r[j + 1][i + 1], ![j + 1][i + 1] = r[i + 1][j + 1]]

\* Matrix4x4_MakeTranspose without the last swap of the scalar build, the
\* slip of a swap left out.
Matrix4x4_MakeTranspose_FiveSwaps(r, sse) ==
    IF sse THEN MM_TRANSPOSE4_PS(r[1], r[2], r[3], r[4])
    ELSE XO_TRANSPOSE_SWAP(XO_TRANSPOSE_SWAP(XO_TRANSPOSE_SWAP(XO_TRANSPOSE_SWAP(
             XO_TRANSPOSE_SWAP(r, 0, 1), 0, 2), 0, 3), 1, 2), 1, 3)

\* MakeTranspose(): the matrix after the call.
Matrix4x4_MakeTranspose(r, sse) ==
    IF sse THEN MM_TRANSPOSE4_PS(r[1], r[2], r[3], r[4])
    ELSE XO_TRANSPOSE_SWAP(XO_TRANSPOSE_SWAP(XO_TRANSPOSE_SWAP(XO_TRANSPOSE_SWAP(
             XO_TRANSPOSE_SWAP(XO_TRANSPOSE_SWAP(r, 0, 1), 0, 2), 0, 3), 1, 2), 1, 3), 2, 3)

\* Transpose(): the copy returned.
Matrix4x4_Transpose(r, sse) == Matrix4x4_MakeTranspose(r, sse)

\* Transform(Vector3&): the caller's vector after the call.
Matrix4x4_Transform3(m, v) == Vector3_v4(Matrix4x4_MulV(m, Vector4_point(v)))

\* Matrix4x4_Transform4 with the vector on the left of the product, the slip
\* of a row vector taken for a column vector.
Matrix4x4_Transform4_RowVector(m, v) ==
    [j \in 1..4 |-> Vector4_Sum(<<RMul(v[1], m[1][j]), RMul(v[2], m[2][j]),
                                  RMul(v[3], m[3][j]), RMul(v[4], m[4][j])>>)]

\* Transform(Vector4&): the caller's vector after the call.
Matrix4x4_Transform4(m, v) == Matrix4x4_MulV(m, v)

\* Matrix4x4_Translation with the offsets in the last row instead of the
\* last column, the slip of a transposed layout.
Matrix4x4_Translation_Transposed(x, y, z) ==
    Matrix4x4_16(R1, R0, R0, R0,
                 R0, R1, R0, R0,
                 R0, R0, R1, R0,
                 x, y, z, R1)

Matrix4x4_Translation(x, y, z) ==
    Matrix4x4_16(R1, R0, R0, x,
                 R0, R1, R0, y,
                 R0, R0, R1, z,
                 R0, R0, R0, R1)

Matrix4x4_TranslationV(v) ==
    Matrix4x4_16(R1, R0, R0, v[1],
                 R0, R1, R0, v[2],
                 R0, R0, R1, v[3],
                 R0, R0, R0, R1)

Matrix4x4_RotationXRadians(radians) ==
    LET cosr == Cos(radians)
        sinr == Sin(radians)
    IN  Matrix4x4_16(R1, R0, R0, R0,
                     R0, cosr, RNeg(sinr), R0,
                     R0, sinr, cosr, R0,
                     R0, R0, R0, R1)

Matrix4x4_RotationYRadians(radians) ==
    LET cosr == Cos(radians)
        sinr == Sin(radians)
    IN  Matrix4x4_16(cosr, R0, RNeg(sinr), R0,
                     R0, R1, R0, R0,
                     sinr, R0, cosr, R0,
                     R0, R0, R0, R1)

\* Matrix4x4_RotationZRadians with the sign of the two sines exchanged, the
\* slip that turns the other way.
Matrix4x4_RotationZRadians_Clockwise(radians) ==
    LET cosr == Cos(radians)
        sinr == Sin(radians)
    IN  Matrix4x4_16(cosr, sinr, R0, R0,
                     RNeg(sinr), cosr, R0, R0,
                     R0, R0, R1, R0,
                     R0, R0, R0, R1)

Matrix4x4_RotationZRadians(radians) ==
    LET cosr == Cos(radians)
        sinr == Sin(radians)
    IN  Matrix4x4_16(cosr, RNeg(sinr), R0, R0,
                     sinr, cosr, R0, R0,
                     R0, R0, R1, R0,
                     R0, R0, R0, R1)

\* Matrix4x4_RotationRadians composing as RotationDegrees does, the slip of
\* the conventional order.
Matrix4x4_RotationRadians_XYZ(x, y, z) ==
    Matrix4x4_Mul(Matrix4x4_Mul(Matrix4x4_RotationXRadians(x), Matrix4x4_RotationYRadians(y)),
                  Matrix4x4_RotationZRadians(z))

Matrix4x4_RotationRadians(x, y, z) ==
    LET mx == Matrix4x4_RotationXRadians(x)
        m == Matrix4x4_RotationYRadians(y)
        mz == Matrix4x4_RotationZRadians(z)
    IN  Matrix4x4_Mul(m, Matrix4x4_Mul(mx, mz))

Matrix4x4_RotationRadiansV(v) ==
    LET mx == Matrix4x4_RotationXRadians(v[1])
        m == Matrix4x4_RotationYRadians(v[2])
        mz == Matrix4x4_RotationZRadians(v[3])
    IN  Matrix4x4_Mul(m, Matrix4x4_Mul(mx, mz))

Matrix4x4_AxisAngleRadians(a, radians) ==
    LET c == Cos(radians)
        s == Sin(radians)
        t == RSub(R1, c)
        x == a[1]
        y == a[2]
        z == a[3]
        txx == RMul(RMul(t, x), x)
        txy == RMul(RMul(t, x), y)
        txz == RMul(RMul(t, x), z)
        tyy == RMul(RMul(t, y), y)
        tyz == RMul(RMul(t, y), z)
        tzz == RMul(RMul(t, z), z)
    IN  Matrix4x4_16(
            RAdd(txx, c), RSub(txy, RMul(z, s)), RAdd(txz, RMul(y, s)), R0,
            RAdd(txy, RMul(z, s)), RAdd(tyy, c), RSub(tyz, RMul(x, s)), R0,
            RSub(txz, RMul(y, s)), RAdd(tyz, RMul(x, s)), RAdd(tzz, c), R0,
            R0, R0, R0, R1)

Matrix4x4_RotationXDegrees(degrees) ==
    Matrix4x4_RotationXRadians(RMul(degrees, Deg2Rad))

Matrix4x4_RotationYDegrees(degrees) ==
    Matrix4x4_RotationYRadians(RMul(degrees, Deg2Rad))

Matrix4x4_RotationZDegrees(degrees) ==
    Matrix4x4_RotationZRadians(RMul(degrees, Deg2Rad))

Matrix4x4_RotationDegrees(x, y, z) ==
    LET m0 == Matrix4x4_RotationXDegrees(x)
        m1 == Matrix4x4_RotationYDegrees(y)
        m2 == Matrix4x4_RotationZDegrees(z)
    IN  Matrix4x4_Mul(Matrix4x4_Mul(m0, m1), m2)

Matrix4x4_RotationDegreesV(v) ==
    LET m0 == Matrix4x4_RotationXDegrees(v[1])
        m1 == Matrix4x4_RotationYDegrees(v[2])
        m2 == Matrix4x4_RotationZDegrees(v[3])
    IN  Matrix4x4_Mul(Matrix4x4_Mul(m0, m1), m2)

Matrix4x4_AxisAngleDegrees(a, degrees) ==
    Matrix4x4_AxisAngleRadians(a, RMul(degrees, Deg2Rad))

\* XO_ASSERT with the assertion hook active: the calls of a factory in
\* order, each the pair of its condition and its message; the message of the
\* first condition that fails is reported and the call ends there.
XO_ASSERT(checks) ==
    IF \E i \in 1..Len(checks) : ~checks[i][1]
    THEN checks[CHOOSE i \in 1..Len(checks) :
                    ~checks[i][1] /\ \A k \in 1..(i - 1) : checks[k][1]][2]
    ELSE "none"

\* ATan of a number, kept as the term it is applied to.
ATan(x) == [atan |-> x]

\* What a float division by zero leaves after the product with zero.
NaN == [nan |-> TRUE]

\* OrthographicProjection(w, h, n, f, m): the diagnostic reported, and m
\* after the call where none was.
Matrix4x4_OrthographicProjection(w, h, n, f) ==
    LET report == XO_ASSERT(<<
            <<w # R0, "::OrthographicProjection Width (w) should not be zero.">>,
            <<h # R0, "::OrthographicProjection Height (h) should not be zero.">> >>)
    IN  [report |-> report,
         m |-> IF report # "none" THEN <<>>
               ELSE Matrix4x4_16(RDiv(R1, w), R0, R0, R0,
                                 R0, RDiv(R1, h), R0, R0,
                                 R0, R0, RSub(f, n), R0,
                                 R0, R0, RMul(n, RSub(f, n)), R1)]

\* PerspectiveProjectionRadians(fovx, fovy, n, f, m), likewise; -n*(f/-n)
\* is a NaN where n is zero.
Matrix4x4_PerspectiveProjectionRadians(fovx, fovy, n, f) ==
    LET report == XO_ASSERT(<<
            <<n # f, "::PerspectiveProjectionRadians Near (n) and far (f) values should not be equal.">> >>)
    IN  [report |-> report,
         m |-> IF report # "none" THEN <<>>
               ELSE Matrix4x4_16(ATan(RDiv(fovx, RTwo)), R0, R0, R0,
                                 R0, ATan(RDiv(fovy, RTwo)), R0, R0,
                                 R0, R0, RDiv(f, RSub(f, n)), R1,
                                 R0, R0,
                                 IF n = R0 THEN NaN
                                 ELSE RMul(RNeg(n), RDiv(f, RNeg(n))), R1)]

Matrix4x4_PerspectiveProjectionDegrees(fovx, fovy, near, far) ==
    Matrix4x4_PerspectiveProjectionRadians(RMul(fovx, Deg2Rad), RMul(fovy, Deg2Rad),
                                           near, far)

---------------------------------------------------------------------------
(* Quaternion (Quaternion.cpp): the tuple <<x, y, z, w>>, laid out as a    *)
(* Vector4.  sse is TRUE in the XO_SSE build (with XO_NO_INVERSE_DIVISION, *)
(* so that the reciprocal of the scale is a division in both builds).      *)

\* The documented error of _mm_rcp_ps, 1.5 * 2^-12.
SSEFloatEpsilon == <<3, 8192>>

Quaternion_Epsilon(sse) ==
    IF sse THEN RMul(SSEFloatEpsilon, I(4)) ELSE RMul(FloatEpsilon, I(4))

Quaternion_Identity == <<R0, R0, R0, R1>>
Quaternion_Zero == <<R0, R0, R0, R0>>

\* _XO_ASSIGN_QUAT(W, X, Y, Z) and _XO_ASSIGN_QUAT_Q(Q, W, X, Y, Z): the
\* scalar part comes first, as in MakeConjugate and AxisAngleRadians.
XO_ASSIGN_QUAT(W, X, Y, Z) == <<X, Y, Z, W>>

\* operator==: every component within Epsilon.
Quaternion_Eq(a, b, sse) ==
    \A i \in 1..4 : CloseEnough(a[i], b[i], Quaternion_Epsilon(sse))

\* xo_internal::QuaternionSquareSum, by two horizontal adds under XO_SSE.
QuaternionSquareSum(q, sse) ==
    IF sse
    THEN mm_cvtss_f32(mm_hadd_ps(mm_hadd_ps(mm_mul_ps(q, q), mm_mul_ps(q, q)),
                                 mm_hadd_ps(mm_mul_ps(q, q), mm_mul_ps(q, q))))
    ELSE RAdd(RAdd(RAdd(RMul(q[1], q[1]), RMul(q[2], q[2])), RMul(q[3], q[3])),
              RMul(q[4], q[4]))

\* MakeConjugate(): *this after the call.
Quaternion_MakeConjugate(q) == XO_ASSIGN_QUAT(q[4], RNeg(q[1]), RNeg(q[2]), RNeg(q[3]))

\* Conjugate(): the copy returned.
Quaternion_Conjugate(q) == Quaternion_MakeConjugate(q)

\* Quaternion_MakeInverse returning *this as it is on a unit quaternion, the
\* slip of taking Normalize's early return.
Quaternion_MakeInverse_Unconjugated(q, sse) ==
    IF CloseEnough(QuaternionSquareSum(q, sse), R1, Quaternion_Epsilon(sse))
    THEN q
    ELSE IF CloseEnough(QuaternionSquareSum(q, sse), R0, Quaternion_Epsilon(sse))
    THEN q
    ELSE Vector4_DivF(Quaternion_MakeConjugate(q), QuaternionSquareSum(q, sse))

\* MakeInverse(): *this after the call.
Quaternion_MakeInverse(q, sse) ==
    IF CloseEnough(QuaternionSquareSum(q, sse), R1, Quaternion_Epsilon(sse))
    THEN Quaternion_MakeConjugate(q)
    ELSE IF CloseEnough(QuaternionSquareSum(q, sse), R0, Quaternion_Epsilon(sse))
    THEN q
    ELSE Vector4_DivF(Quaternion_MakeConjugate(q), QuaternionSquareSum(q, sse))

\* Inverse(): the copy returned.
Quaternion_Inverse(q, sse) == Quaternion_MakeInverse(q, sse)

\* Quaternion_Normalize returning the identity on a quaternion of near-zero
\* magnitude, the slip of a default put where the pass-through is.
Quaternion_Normalize_ZeroToIdentity(q, sse) ==
    IF CloseEnough(QuaternionSquareSum(q, sse), R1, Quaternion_Epsilon(sse)) THEN q
    ELSE IF CloseEnough(Sqrt(QuaternionSquareSum(q, sse)), R0, Quaternion_Epsilon(sse))
    THEN Quaternion_Identity
    ELSE Vector4_DivF(q, Sqrt(QuaternionSquareSum(q, sse)))

\* Normalize(): *this after the call.
Quaternion_Normalize(q, sse) ==
    IF CloseEnough(QuaternionSquareSum(q, sse), R1, Quaternion_Epsilon(sse)) THEN q
    ELSE IF CloseEnough(Sqrt(QuaternionSquareSum(q, sse)), R0, Quaternion_Epsilon(sse))
    THEN q
    ELSE Vector4_DivF(q, Sqrt(QuaternionSquareSum(q, sse)))

\* Normalized(): the copy returned.
Quaternion_Normalized(q, sse) == Quaternion_Normalize(q, sse)

\* Lines 205-214 of GetAxisAngleRadians, q being Normalized(): under XO_SSE
\* the whole register of q is copied to axis, otherwise x, y, z are stored
\* in axis, its fourth lane left as it was, and axis is normalised.
Quaternion_GetAxisAngleOf(q, axis, sse) ==
    [axis |-> IF sse THEN q
              ELSE Vector3_Normalize(<<q[1], q[2], q[3], axis[4]>>),
     radians |-> IF ACos(q[4]) = [nan |-> TRUE] THEN [nan |-> TRUE]
                 ELSE RMul(RTwo, ACos(q[4]))]

\* GetAxisAngleRadians(axis, radians): the two after the call.
Quaternion_GetAxisAngleRadians(q, axis, sse) ==
    Quaternion_GetAxisAngleOf(Quaternion_Normalized(q, sse), axis, sse)

\* Quaternion_AxisAngleRadians with the half angle in the scalar part, the
\* slip of the usual axis-angle formula written in its place.
Quaternion_AxisAngleRadians_HalfAngle(axis, radians) ==
    XO_ASSIGN_QUAT(Cos(RMul(radians, RHalf)),
                   Vector3_MulF(Vector3_Normalized(axis), Sin(RMul(radians, RHalf)))[1],
                   Vector3_MulF(Vector3_Normalized(axis), Sin(RMul(radians, RHalf)))[2],
                   Vector3_MulF(Vector3_Normalized(axis), Sin(RMul(radians, RHalf)))[3])

\* AxisAngleRadians(axis, radians, outQuat): outQuat after the call.
Quaternion_AxisAngleRadians(axis, radians) ==
    XO_ASSIGN_QUAT(Cos(radians),
                   Vector3_MulF(Vector3_Normalized(axis), Sin(RMul(radians, RHalf)))[1],
                   Vector3_MulF(Vector3_Normalized(axis), Sin(RMul(radians, RHalf)))[2],
                   Vector3_MulF(Vector3_Normalized(axis), Sin(RMul(radians, RHalf)))[3])

\* LookAtFromDirection(direction, up, outQuat): the body is empty, outQuat
\* after the call is outQuat before it.
Quaternion_LookAtFromDirection(direction, up, outQuat) == outQuat

\* LookAtFromDirection(direction, outQuat)
Quaternion_LookAtFromDirectionUp(direction, outQuat) ==
    Quaternion_LookAtFromDirection(direction, Vector3_Up, outQuat)

\* LookAtFromPosition(from, to, up, outQuat)
Quaternion_LookAtFromPosition(from, to, up, outQuat) ==
    Quaternion_LookAtFromDirection(Vector3_Sub(to, from), up, outQuat)

\* LookAtFromPosition(from, to, outQuat)
Quaternion_LookAtFromPositionUp(from, to, outQuat) ==
    Quaternion_LookAtFromPosition(from, to, Vector3_Up, outQuat)

\* Lines 94-132 of Quaternion(const Matrix4x4&): the four branches, on the
\* axes with the scale divided out.
Quaternion_mRotation(xAxis, yAxis, zAxis) ==
    LET trace == RAdd(RAdd(RAdd(xAxis[1], yAxis[2]), zAxis[3]), R1)
    IN  IF RGt(trace, R1)
        THEN LET s == RDiv(RHalf, Sqrt(trace))
             IN  XO_ASSIGN_QUAT(
                     RDiv(<<1, 4>>, s),
                     RMul(RSub(yAxis[3], zAxis[2]), s),
                     RMul(RSub(xAxis[2], yAxis[1]), s),
                     RMul(RSub(zAxis[1], xAxis[3]), s))
        ELSE IF RGt(xAxis[1], yAxis[2]) /\ RGt(xAxis[1], zAxis[3])
        THEN LET s == RDiv(RHalf, Sqrt(
                          RSub(RSub(RAdd(R1, xAxis[1]), yAxis[2]), zAxis[3])))
             IN  XO_ASSIGN_QUAT(
                     RMul(RSub(yAxis[3], zAxis[2]), s),
                     RDiv(<<1, 4>>, s),
                     RMul(RAdd(zAxis[1], xAxis[3]), s),
                     RMul(RAdd(yAxis[1], xAxis[2]), s))
        ELSE IF RGt(yAxis[2], zAxis[3])
        THEN LET s == RDiv(RHalf, Sqrt(
                          RSub(RSub(RAdd(R1, yAxis[2]), xAxis[1]), zAxis[3])))
             IN  XO_ASSIGN_QUAT(
                     RMul(RSub(zAxis[1], xAxis[3]), s),
                     RMul(RAdd(yAxis[1], xAxis[2]), s),
                     RMul(RAdd(zAxis[2], yAxis[3]), s),
                     RDiv(<<1, 4>>, s))
        ELSE LET s == RDiv(RHalf, Sqrt(
                          RSub(RSub(RAdd(R1, zAxis[3]), xAxis[1]), yAxis[2])))
             IN  XO_ASSIGN_QUAT(
                     RMul(RSub(xAxis[2], yAxis[1]), s),
                     RMul(RAdd(zAxis[1], xAxis[3]), s),
                     RDiv(<<1, 4>>, s),
                     RMul(RAdd(zAxis[2], yAxis[3]), s))

\* Lines 67-92: the test on the scale, and the axes divided by it.
Quaternion_mScaled(xAxis, yAxis, zAxis, scale, sse, uninit) ==
    IF RLe(scale[1], FloatEpsilon) \/ RLe(scale[2], FloatEpsilon)
       \/ RLe(scale[3], FloatEpsilon)
    THEN IF sse THEN uninit
         ELSE <<R0, R0, R0, R1>>
    ELSE Quaternion_mRotation(Vector3_MulF(xAxis, RDiv(R1, scale[1])),
                              Vector3_MulF(yAxis, RDiv(R1, scale[2])),
                              Vector3_MulF(zAxis, RDiv(R1, scale[3])))

\* Quaternion(const Matrix4x4&).  uninit is what the storage of the object
\* holds before the constructor runs: no member has an initialiser.
Quaternion_m(mat, sse, uninit) ==
    Quaternion_mScaled(
        Vector3_v4(mat[1]), Vector3_v4(mat[2]), Vector3_v4(mat[3]),
        Vector3_xyz(Vector3_Magnitude(Vector3_v4(mat[1])),
                    Vector3_Magnitude(Vector3_v4(mat[2])),
                    Vector3_Magnitude(Vector3_v4(mat[3]))),
        sse, uninit)

\* The branch of the constructor the axes and their scale take.
Quaternion_mBranchScaled(xAxis, yAxis, zAxis, sx, sy, sz) ==
    IF RLe(sx, FloatEpsilon) \/ RLe(sy, FloatEpsilon) \/ RLe(sz, FloatEpsilon)
    THEN "degenerate"
    ELSE
    LET xx == RDiv(xAxis[1], sx)
        yy == RDiv(yAxis[2], sy)
        zz == RDiv(zAxis[3], sz)
    IN  IF RGt(RAdd(RAdd(RAdd(xx, yy), zz), R1), R1) THEN "trace"
        ELSE IF RGt(xx, yy) /\ RGt(xx, zz) THEN "x"
        ELSE IF RGt(yy, zz) THEN "y"
        ELSE "z"

\* The branch of the constructor a matrix takes.
Quaternion_mBranch(mat) ==
    Quaternion_mBranchScaled(
        Vector3_v4(mat[1]), Vector3_v4(mat[2]), Vector3_v4(mat[3]),
        Vector3_Magnitude(Vector3_v4(mat[1])),
        Vector3_Magnitude(Vector3_v4(mat[2])),
        Vector3_Magnitude(Vector3_v4(mat[3])))

---------------------------------------------------------------------------
(* Slerp.  The polynomial path is evaluated in fixed point, FixScale       *)
(* units to 1, each product rounded down.                                  *)

FixScale == 10 ^ 4

\* The fixed-point value of a rational, rounded down (a denominator too
\* large to scale is first divided by FixScale).
Fix(a) ==
    LET whole == a[1] \div a[2]
        rem == a[1] % a[2]
    IN  whole * FixScale
        + (IF a[2] <= 200000 THEN (rem * FixScale) \div a[2]
           ELSE rem \div (a[2] \div FixScale))

\* The decimal literal digits * 10^-places.
FixLit(digits, places) ==
    IF places >= 4 THEN digits \div (10 ^ (places - 4))
    ELSE digits * (10 ^ (4 - places))

FMul(x, y) == (x * y) \div FixScale

UnFix(x) == Rat(x, FixScale)

\* Lines 335-345: the series expansion of one coefficient, sq being
\* sqNotU for ratio1 and sqU for ratio2, and seed the first value of ratio2.
Quaternion_SlerpRatio(sq, seed, versHalfTheta) ==
    LET r1 == -FixLit(158730159, 11) + FMul(sq - 16 * FixScale, seed)
        r2 == FixLit(333333333, 10) + FMul(FMul(r1, sq - 9 * FixScale), versHalfTheta)
        r3 == -FixLit(333333333, 9) + FMul(FMul(r2, sq - 4 * FixScale), versHalfTheta)
    IN  FixScale + FMul(FMul(r3, sq - FixScale), versHalfTheta)

\* Lines 354-368: the final coefficients applied to a and b, and the
\* correction of the length.
Quaternion_SlerpApply(a, b, alpha, beta) ==
    LET w == FMul(alpha, a[4]) + FMul(beta, b[4])
        x == FMul(alpha, a[1]) + FMul(beta, b[1])
        y == FMul(alpha, a[2]) + FMul(beta, b[2])
        z == FMul(alpha, a[3]) + FMul(beta, b[3])
        f1 == FixLit(15, 1)
              - FMul(FixLit(5, 1), FMul(w, w) + FMul(x, x) + FMul(y, y) + FMul(z, z))
    IN  XO_ASSIGN_QUAT(UnFix(FMul(w, f1)), UnFix(FMul(x, f1)),
                       UnFix(FMul(y, f1)), UnFix(FMul(z, f1)))

\* Lines 347-352: the bisection, and the folding resolved.
Quaternion_SlerpBisect(a, b, alpha, f1, f2a, f2b, ratio1, ratio2, halfSecHalfTheta) ==
    Quaternion_SlerpApply(a, b,
        FMul(alpha, FMul(f1, FMul(ratio1, halfSecHalfTheta)) + FMul(f2a, ratio2)),
        FMul(f1, FMul(ratio1, halfSecHalfTheta)) + FMul(f2b, ratio2))

\* Lines 334-345: both coefficients from the versine of the half angle.
Quaternion_SlerpSeries(a, b, alpha, f1, f2a, f2b, u, halfSecHalfTheta, versHalfTheta) ==
    Quaternion_SlerpBisect(a, b, alpha, f1, f2a, f2b,
        Quaternion_SlerpRatio(FMul(f1, f1), FMul(FixLit(440917108, 13), versHalfTheta),
                              versHalfTheta),
        Quaternion_SlerpRatio(FMul(u, u), FMul(FixLit(440917108, 13), versHalfTheta),
                              versHalfTheta),
        halfSecHalfTheta)

\* Lines 329-332: one iteration of Newton for the half secant.
Quaternion_SlerpNewton(a, b, alpha, halfY, f1, f2a, f2b, u, hs0) ==
    Quaternion_SlerpSeries(a, b, alpha, f1, f2a, f2b, u,
        FMul(hs0, FixLit(15, 1) - FMul(FMul(halfY, hs0), hs0)),
        FixScale - FMul(halfY, FMul(hs0, FixLit(15, 1) - FMul(FMul(halfY, hs0), hs0))))

\* Lines 316-327: theta and t folded, on the fixed-point components.
Quaternion_SlerpFolded(a, b, cosTheta, f2b) ==
    LET alpha == IF cosTheta >= 0 THEN FixScale ELSE -FixScale
        halfY == FixScale + FMul(alpha, cosTheta)
        u == IF f2b >= 0 THEN f2b ELSE -f2b
    IN  Quaternion_SlerpNewton(a, b, alpha, halfY, FixScale - (u + u), u - f2b, f2b + u,
            u + u,
            FixLit(109, 2)
                - FMul(FixLit(476537, 6) - FMul(FixLit(903321, 7), halfY), halfY))

\* The polynomial path of Slerp, lines 305-369.
Quaternion_SlerpPolynomial(a, b, t) ==
    Quaternion_SlerpFolded(
        <<Fix(a[1]), Fix(a[2]), Fix(a[3]), Fix(a[4])>>,
        <<Fix(b[1]), Fix(b[2]), Fix(b[3]), Fix(b[4])>>,
        FMul(Fix(a[1]), Fix(b[1])) + FMul(Fix(a[2]), Fix(b[2]))
            + FMul(Fix(a[3]), Fix(b[3])) + FMul(Fix(a[4]), Fix(b[4])),
        Fix(t) - FixLit(5, 1))

\* Quaternion_Slerp without the test for t at 1, the slip of a missing
\* fast path.
Quaternion_Slerp_NoEnd(a, b, t, sse) ==
    IF CloseEnough(t, R0, FloatEpsilon) THEN [outQuat |-> a, path |-> "t0"]
    ELSE IF Quaternion_Eq(a, b, sse) THEN [outQuat |-> a, path |-> "equal"]
    ELSE [outQuat |-> Quaternion_SlerpPolynomial(a, b, t), path |-> "polynomial"]

\* Slerp(a, b, t, outQuat): what outQuat holds after the call, and the
\* branch that wrote it.
Quaternion_Slerp(a, b, t, sse) ==
    IF CloseEnough(t, R0, FloatEpsilon) THEN [outQuat |-> a, path |-> "t0"]
    ELSE IF CloseEnough(t, R1, FloatEpsilon) THEN [outQuat |-> b, path |-> "t1"]
    ELSE IF Quaternion_Eq(a, b, sse) THEN [outQuat |-> a, path |-> "equal"]
    ELSE [outQuat |-> Quaternion_SlerpPolynomial(a, b, t), path |-> "polynomial"]

---------------------------------------------------------------------------
(* The inputs of the calls.                                                *)

Builds == {"scalar", "sse"}

\* Quaternion.cpp compiles differently under XO_SSE; Vector3.h is written
\* with the SSE intrinsics alone, and the other operations modelled here have
\* one body for both builds.
BuildsOf(o) ==
    IF o \in {"Quaternion::Quaternion(Matrix4x4)", "Quaternion::Slerp",
              "Quaternion::Conjugate", "Quaternion::MakeConjugate",
              "Quaternion::Inverse", "Quaternion::MakeInverse",
              "Quaternion::GetAxisAngleRadians", "Quaternion::AxisAngleRadians",
              "Matrix4x4::MakeTranspose", "Matrix4x4::Transpose",
              "Quaternion::Normalize"}
    THEN Builds
    ELSE {"sse"}

SSE == build = "sse"

HalfGrid == {Rat(u, 2) : u \in -MaxHalf..MaxHalf}

IntGrid == {I(u) : u \in -MaxCoord..MaxCoord}

LaneW == {I(u) : u \in 0..MaxLaneW}

\* Vector3 values on the half grid, whatever their fourth lane holds.
Vector3Values == {<<x, y, z, w>> : x \in HalfGrid, y \in HalfGrid, z \in HalfGrid,
                                   w \in LaneW}

\* Those whose magnitude is rational.
Vector3Rational ==
    {v \in Vector3Values :
        LET n == Vector3_MagnitudeSquared(v) IN IsSquare(n[1]) /\ IsSquare(n[2])}

Vector2Values == {<<x, y>> : x \in HalfGrid, y \in HalfGrid}

Vector2Rational ==
    {v \in Vector2Values :
        LET n == Vector2_MagnitudeSquared(v) IN IsSquare(n[1]) /\ IsSquare(n[2])}

Vector3Ints == {<<x, y, z, w>> : x \in IntGrid, y \in IntGrid, z \in IntGrid, w \in LaneW}

Vector3Points == {Vector3_xyz(x, y, z) : x \in IntGrid, y \in IntGrid, z \in IntGrid}

\* Vector3 values on a smaller grid, whatever their fourth lane holds, for
\* the calls that take two.
Vector3Lanes == {<<x, y, z, w>> : x \in IntGrid, y \in IntGrid, z \in {R0, R1}, w \in LaneW}

Vector2Ints == {<<x, y>> : x \in IntGrid, y \in IntGrid}

\* Pairs whose angle is a multiple of an eighth turn.
Vector2CompassPairs ==
    {p \in Vector2Ints \X Vector2Ints :
        IsCompass(Vector2_Cross(p[1], p[2]), Vector2_Dot(p[1], p[2]))}

\* Interpolation parameters: the end points, values within FloatEpsilon of
\* them, values just outside every Epsilon, and values outside [0, 1].
TinyT == RMul(FloatEpsilon, RHalf)
NearT == RMul(FloatEpsilon, I(5))

TValues == {R0, TinyT, RNeg(TinyT), NearT, <<1, 4>>, RHalf, RSub(R1, TinyT), R1,
            RAdd(R1, TinyT), RAdd(R1, NearT), RTwo, I(-1)}

QuatTuples ==
    {c \in (-MaxQuat..MaxQuat) \X (-MaxQuat..MaxQuat) \X (-MaxQuat..MaxQuat)
           \X (-MaxQuat..MaxQuat) :
        LET n == c[1] * c[1] + c[2] * c[2] + c[3] * c[3] + c[4] * c[4]
        IN  n > 0 /\ IsSquare(n)}

\* The unit quaternions with rational components the tuples normalise to.
UnitQuaternions ==
    {LET n == ISqrt(c[1] * c[1] + c[2] * c[2] + c[3] * c[3] + c[4] * c[4])
     IN  <<Rat(c[1], n), Rat(c[2], n), Rat(c[3], n), Rat(c[4], n)>> : c \in QuatTuples}

\* Those with a non-negative vector part, for the calls that take two.
SlerpQuaternions == {q \in UnitQuaternions : q[1][1] >= 0 /\ q[2][1] >= 0 /\ q[3][1] >= 0}

\* Quaternions of any magnitude, the zero quaternion among them.
QuaternionValues ==
    UnitQuaternions
        \cup {<<x, y, z, w>> : x \in IntGrid, y \in IntGrid, z \in IntGrid, w \in IntGrid}

\* 2^-12: its square is within Epsilon of 0 in both builds.
Tiny == Rat(1, 4096)

\* Quaternions a component of 2^-12 away from the zero quaternion and from
\* the identity.
QuaternionNear == {<<x, R0, R0, w>> : x \in {Tiny, RNeg(Tiny)}, w \in {R0, R1}}

\* What a quaternion passed as an out parameter may hold before the call.
PriorQuaternions ==
    {Quaternion_Identity, Quaternion_Zero, <<R1, R0, R0, R0>>, <<RHalf, RHalf, RHalf, RHalf>>}

Scales == {I(u) : u \in 0..MaxScale}

\* The matrix with its first three rows scaled.
ScaleRows(m, s) ==
    <<Vector4_MulF(m[1], s[1]), Vector4_MulF(m[2], s[2]), Vector4_MulF(m[3], s[3]), m[4]>>

\* What uninitialised storage may hold.
Indeterminate == {Quaternion_Zero, <<I(1), I(2), I(3), I(4)>>}

Degrees == {I(90 * k) : k \in -MaxTurns..MaxTurns}

\* The same angles in radians, as coefficients of pi.
Radians == {RMul(d, Deg2Rad) : d \in Degrees}

\* What a matrix passed as an out parameter may hold before the call.
Matrix4x4_Identity ==
    <<Vector4_xyzw(R1, R0, R0, R0), Vector4_xyzw(R0, R1, R0, R0),
      Vector4_xyzw(R0, R0, R1, R0), Vector4_xyzw(R0, R0, R0, R1)>>

\* The matrix whose element [i][j] is 4i + j + 1, no two elements equal.
Matrix4x4_Counting == [i \in 1..4 |-> [j \in 1..4 |-> I(4 * (i - 1) + j)]]

PriorMatrices == {Matrix4x4_Identity, Matrix4x4_Counting}

\* Matrices: rotations, translations and the two above.
MatrixValues ==
    PriorMatrices
        \cup {Matrix4x4_q(q) : q \in SlerpQuaternions}
        \cup {Matrix4x4_Translation(x, y, z) : x \in IntGrid, y \in IntGrid, z \in IntGrid}

\* The matrices handed to Transform.
TransformMatrices == PriorMatrices \cup {Matrix4x4_q(q) : q \in SlerpQuaternions}

\* Angles whose half is a multiple of a quarter turn, as coefficients of pi.
HalfTurns == {I(k) : k \in -MaxTurns..MaxTurns}

\* Vector3(f): every lane holds f.
Vector3Broadcast == {Vector3_f(f) : f \in HalfGrid}

\* Operands of the calls that take two, some with every lane alike.
Vector3LanePairs ==
    (Vector3Lanes \cup {Vector3_f(f) : f \in IntGrid})
        \X (Vector3Lanes \cup {Vector3_f(f) : f \in IntGrid})

UnitAxes == {Vector3_UnitX, Vector3_UnitY, Vector3_UnitZ}

\* Vectors along one axis, of length 0 to MaxHalf / 2: every magnitude met
\* in a look-at call on them is rational.
AxisVectors == {Vector3_MulF(a, f) : a \in UnitAxes, f \in HalfGrid}

\* Up vectors along one axis, shorter than, of and longer than unit length.
UpVectors == {Vector3_MulF(a, f) : a \in UnitAxes, f \in {RHalf, R1, RTwo}}

\* Eye positions in the plane z = 0.
EyePoints == {Vector3_xyz(x, y, R0) : x \in IntGrid, y \in IntGrid}

Operations ==
    {"Quaternion::Quaternion(Matrix4x4)",
     "Vector3::Normalize", "Vector3::Normalized",
     "Vector2::Normalize", "Vector2::Normalized",
     "Vector3::IsZero", "Vector3::IsNormalized",
     "Vector2::IsZero", "Vector2::IsNormalized",
     "Matrix4x4::RotationXDegrees", "Matrix4x4::RotationYDegrees",
     "Matrix4x4::RotationZDegrees", "Matrix4x4::RotationDegrees",
     "Matrix4x4::RotationDegrees(Vector3)", "Matrix4x4::AxisAngleDegrees",
     "Vector2::AngleRadians", "Vector2::AngleDegrees",
     "Vector2::Lerp", "Vector3::Lerp",
     "Quaternion::Slerp",
     "Vector3::Cross",
     "Matrix4x4::Translation.Transform",
     "Matrix4x4::RotationZDegrees.Transform",
     "Matrix4x4::RotationZRadians.Transform",
     "Matrix4x4::OrthographicProjection",
     "Matrix4x4::PerspectiveProjectionRadians",
     "Matrix4x4::PerspectiveProjectionDegrees",
     "Vector2::Max",
     "Vector2::Min",
     "Vector3::Max",
     "Vector3::Min",
     "Quaternion::Conjugate",
     "Quaternion::MakeConjugate",
     "Quaternion::Inverse",
     "Quaternion::MakeInverse",
     "Quaternion::GetAxisAngleRadians",
     "Matrix4x4::RotationRadians",
     "Matrix4x4::RotationRadians(Vector3)",
     "Matrix4x4::MakeTranspose",
     "Matrix4x4::Transpose",
     "Matrix4x4::Transform(Vector3)",
     "Matrix4x4::Transform(Vector4)",
     "Quaternion::AxisAngleRadians",
     "Vector3::MagnitudeSquared",
     "Vector3::Magnitude",
     "Vector3::Dot",
     "Vector3::AngleRadians",
     "Matrix4x4::LookAtFromDirection",
     "Matrix4x4::LookAtFromPosition",
     "Quaternion::Normalize",
     "Matrix4x4::AxisAngleRadians",
     "Quaternion::LookAtFromDirection",
     "Quaternion::LookAtFromDirection(up)",
     "Quaternion::LookAtFromPosition",
     "Quaternion::LookAtFromPosition(up)"}

Inputs(o) ==
    CASE o = "Quaternion::Quaternion(Matrix4x4)" ->
            {[q |-> q, scale |-> s, mat |-> ScaleRows(Matrix4x4_q(q), s), uninit |-> u] :
                q \in UnitQuaternions, s \in Scales \X Scales \X Scales,
                u \in Indeterminate}
      [] o \in {"Vector3::Normalize", "Vector3::Normalized"} ->
            {[this |-> v] : v \in Vector3Rational}
      [] o \in {"Vector2::Normalize", "Vector2::Normalized"} ->
            {[this |-> v] : v \in Vector2Rational}
      [] o \in {"Vector3::IsZero", "Vector3::IsNormalized"} ->
            {[this |-> v] : v \in Vector3Values}
      [] o \in {"Vector2::IsZero", "Vector2::IsNormalized"} ->
            {[this |-> v] : v \in Vector2Values}
      [] o \in {"Matrix4x4::RotationXDegrees", "Matrix4x4::RotationYDegrees",
                "Matrix4x4::RotationZDegrees"} ->
            {[degrees |-> d] : d \in Degrees}
      [] o = "Matrix4x4::RotationDegrees" ->
            {[x |-> x, y |-> y, z |-> z] : x \in Degrees, y \in Degrees, z \in Degrees}
      [] o = "Matrix4x4::RotationDegrees(Vector3)" ->
            {[v |-> Vector3_xyz(x, y, z)] : x \in Degrees, y \in Degrees, z \in Degrees}
      [] o = "Matrix4x4::AxisAngleDegrees" ->
            {[axis |-> a, degrees |-> d] : a \in UnitAxes, d \in Degrees}
      [] o \in {"Vector2::AngleRadians", "Vector2::AngleDegrees"} ->
            {[a |-> p[1], b |-> p[2]] : p \in Vector2CompassPairs}
      [] o = "Vector2::Lerp" ->
            {[a |-> a, b |-> b, t |-> t] : a \in Vector2Ints, b \in Vector2Ints,
                                           t \in TValues}
      [] o = "Vector3::Lerp" ->
            {[a |-> a, b |-> b, t |-> t] : a \in Vector3Points, b \in Vector3Points,
                                           t \in TValues}
      [] o = "Quaternion::Slerp" ->
            {[a |-> a, b |-> b, t |-> t] : a \in SlerpQuaternions,
                                           b \in SlerpQuaternions, t \in TValues}
      [] o = "Vector3::Cross" ->
            {[a |-> a, b |-> b] : a \in Vector3Ints, b \in Vector3Ints}
      [] o = "Matrix4x4::Translation.Transform" ->
            {[x |-> x, y |-> y, z |-> z, v |-> v] :
                x \in IntGrid, y \in IntGrid, z \in IntGrid, v \in Vector3Ints}
      [] o = "Matrix4x4::RotationZDegrees.Transform" ->
            {[degrees |-> d, v |-> v] : d \in Degrees, v \in Vector3Ints}
      [] o = "Matrix4x4::RotationZRadians.Transform" ->
            {[radians |-> r, v |-> v] : r \in Radians, v \in Vector3Ints}
      [] o = "Matrix4x4::OrthographicProjection" ->
            {[w |-> w, h |-> h, n |-> n, f |-> f] :
                w \in IntGrid, h \in IntGrid, n \in IntGrid, f \in IntGrid}
      [] o = "Matrix4x4::PerspectiveProjectionRadians" ->
            {[fovx |-> x, fovy |-> y, n |-> n, f |-> f] :
                x \in {R0, RHalf}, y \in {R0, RHalf}, n \in IntGrid, f \in IntGrid}
      [] o = "Matrix4x4::PerspectiveProjectionDegrees" ->
            {[fovx |-> x, fovy |-> y, n |-> n, f |-> f] :
                x \in {R0, I(90)}, y \in {R0, I(90)}, n \in IntGrid, f \in IntGrid}
      [] o \in {"Vector2::Max", "Vector2::Min"} ->
            {[a |-> a, b |-> b] : a \in Vector2Ints, b \in Vector2Ints}
      [] o \in {"Vector3::Max", "Vector3::Min"} ->
            {[a |-> a, b |-> b] : a \in Vector3Lanes, b \in Vector3Lanes}
      [] o \in {"Quaternion::Conjugate", "Quaternion::MakeConjugate",
                "Quaternion::Inverse"} ->
            {[this |-> q] : q \in QuaternionValues}
      [] o \in {"Quaternion::MakeInverse", "Quaternion::Normalize"} ->
            {[this |-> q] : q \in QuaternionValues \cup QuaternionNear}
      [] o = "Quaternion::GetAxisAngleRadians" ->
            {[this |-> q, axis |-> a] :
                q \in QuaternionValues, a \in {Vector3_Zero, Vector3_f(R1)}}
      [] o = "Matrix4x4::RotationRadians" ->
            {[x |-> x, y |-> y, z |-> z, m |-> m] :
                x \in Radians, y \in Radians, z \in Radians, m \in PriorMatrices}
      [] o = "Matrix4x4::RotationRadians(Vector3)" ->
            {[v |-> <<x, y, z, w>>, m |-> m] :
                x \in Radians, y \in Radians, z \in Radians, w \in LaneW,
                m \in PriorMatrices}
      [] o \in {"Matrix4x4::MakeTranspose", "Matrix4x4::Transpose"} ->
            {[this |-> m] : m \in MatrixValues}
      [] o \in {"Matrix4x4::Transform(Vector3)", "Matrix4x4::Transform(Vector4)"} ->
            {[this |-> m, v |-> v] : m \in TransformMatrices, v \in Vector3Lanes}
      [] o = "Quaternion::AxisAngleRadians" ->
            {[axis |-> a, radians |-> r] : a \in Vector3Rational, r \in HalfTurns}
      [] o \in {"Vector3::MagnitudeSquared", "Vector3::Magnitude"} ->
            {[this |-> v] : v \in Vector3Values \cup Vector3Broadcast}
      [] o \in {"Vector3::Dot", "Vector3::AngleRadians"} ->
            {[a |-> p[1], b |-> p[2]] : p \in Vector3LanePairs}
      [] o = "Matrix4x4::LookAtFromDirection" ->
            {[direction |-> d, up |-> u, m |-> m] :
                d \in AxisVectors, u \in UpVectors, m \in PriorMatrices}
      [] o = "Matrix4x4::LookAtFromPosition" ->
            {[from |-> f, to |-> Vector3_Add(f, d), up |-> u, m |-> Matrix4x4_Counting] :
                f \in EyePoints, d \in AxisVectors, u \in UpVectors}
      [] o = "Matrix4x4::AxisAngleRadians" ->
            {[a |-> a, radians |-> r, m |-> m] :
                a \in UnitAxes, r \in Radians, m \in PriorMatrices}
      [] o = "Quaternion::LookAtFromDirection" ->
            {[direction |-> d, outQuat |-> q] : d \in AxisVectors, q \in PriorQuaternions}
      [] o = "Quaternion::LookAtFromDirection(up)" ->
            {[direction |-> d, up |-> u, outQuat |-> q] :
                d \in AxisVectors, u \in UpVectors, q \in PriorQuaternions}
      [] o = "Quaternion::LookAtFromPosition" ->
            {[from |-> f, to |-> t, outQuat |-> q] :
                f \in EyePoints, t \in AxisVectors, q \in PriorQuaternions}
      [] o = "Quaternion::LookAtFromPosition(up)" ->
            {[from |-> f, to |-> t, up |-> u, outQuat |-> q] :
                f \in EyePoints, t \in AxisVectors, u \in UnitAxes, q \in PriorQuaternions}

NoResult == [none |-> TRUE]

---------------------------------------------------------------------------
(* The calls.                                                              *)

Init ==
    /\ op \in Operations
    /\ build \in BuildsOf(op)
    /\ pc = "call"
    /\ arg \in Inputs(op)
    /\ res = NoResult

\* The call of operation o returns, leaving r in the caller's values.
Return(o, r) ==
    /\ pc = "call"
    /\ op = o
    /\ res' = r
    /\ pc' = "done"
    /\ UNCHANGED <<build, op, arg>>

Call_Quaternion_m ==
    Return("Quaternion::Quaternion(Matrix4x4)",
           [this |-> Quaternion_m(arg.mat, SSE, arg.uninit)])

Call_Vector3_Normalize ==
    Return("Vector3::Normalize", [this |-> Vector3_Normalize(arg.this)])

Call_Vector3_Normalized ==
    Return("Vector3::Normalized", [this |-> arg.this, ret |-> Vector3_Normalized(arg.this)])

Call_Vector2_Normalize ==
    Return("Vector2::Normalize", [this |-> Vector2_Normalize(arg.this)])

Call_Vector2_Normalized ==
    Return("Vector2::Normalized", [this |-> arg.this, ret |-> Vector2_Normalized(arg.this)])

Call_Vector3_IsZero ==
    Return("Vector3::IsZero", [ret |-> Vector3_IsZero(arg.this)])

Call_Vector3_IsNormalized ==
    Return("Vector3::IsNormalized", [ret |-> Vector3_IsNormalized(arg.this)])

Call_Vector2_IsZero ==
    Return("Vector2::IsZero", [ret |-> Vector2_IsZero(arg.this)])

Call_Vector2_IsNormalized ==
    Return("Vector2::IsNormalized", [ret |-> Vector2_IsNormalized(arg.this)])

Call_RotationXDegrees ==
    Return("Matrix4x4::RotationXDegrees", [m |-> Matrix4x4_RotationXDegrees(arg.degrees)])

Call_RotationYDegrees ==
    Return("Matrix4x4::RotationYDegrees", [m |-> Matrix4x4_RotationYDegrees(arg.degrees)])

Call_RotationZDegrees ==
    Return("Matrix4x4::RotationZDegrees", [m |-> Matrix4x4_RotationZDegrees(arg.degrees)])

Call_RotationDegrees ==
    Return("Matrix4x4::RotationDegrees",
           [m |-> Matrix4x4_RotationDegrees(arg.x, arg.y, arg.z)])

Call_RotationDegreesV ==
    Return("Matrix4x4::RotationDegrees(Vector3)", [m |-> Matrix4x4_RotationDegreesV(arg.v)])

Call_AxisAngleDegrees ==
    Return("Matrix4x4::AxisAngleDegrees",
           [m |-> Matrix4x4_AxisAngleDegrees(arg.axis, arg.degrees)])

Call_Vector2_AngleRadians ==
    Return("Vector2::AngleRadians", [ret |-> Vector2_AngleRadians(arg.a, arg.b)])

Call_Vector2_AngleDegrees ==
    Return("Vector2::AngleDegrees", [ret |-> Vector2_AngleDegrees(arg.a, arg.b)])

Call_Vector2_Lerp ==
    Return("Vector2::Lerp", [outVec |-> Vector2_Lerp(arg.a, arg.b, arg.t),
                             ret |-> Vector2_LerpValue(arg.a, arg.b, arg.t)])

Call_Vector3_Lerp ==
    Return("Vector3::Lerp", [ret |-> Vector3_Lerp(arg.a, arg.b, arg.t)])

Call_Quaternion_Slerp ==
    Return("Quaternion::Slerp", Quaternion_Slerp(arg.a, arg.b, arg.t, SSE))

Call_Vector3_Cross ==
    Return("Vector3::Cross", [ret |-> Vector3_Cross(arg.a, arg.b)])

\* Matrix4x4::Translation(x, y, z).Transform(v)
Call_Translation_Transform ==
    LET m == Matrix4x4_Translation(arg.x, arg.y, arg.z)
    IN  Return("Matrix4x4::Translation.Transform",
               [m |-> m, v |-> Matrix4x4_Transform3(m, arg.v), ret |-> m])

\* Matrix4x4::RotationZDegrees(degrees).Transform(v)
Call_RotationZDegrees_Transform ==
    Return("Matrix4x4::RotationZDegrees.Transform",
           [m |-> Matrix4x4_RotationZDegrees(arg.degrees),
            v |-> Matrix4x4_Transform3(Matrix4x4_RotationZDegrees(arg.degrees), arg.v)])

\* Matrix4x4::RotationZRadians(radians).Transform(v)
Call_RotationZRadians_Transform ==
    Return("Matrix4x4::RotationZRadians.Transform",
           [m |-> Matrix4x4_RotationZRadians(arg.radians),
            v |-> Matrix4x4_Transform3(Matrix4x4_RotationZRadians(arg.radians), arg.v)])

Call_OrthographicProjection ==
    Return("Matrix4x4::OrthographicProjection",
           Matrix4x4_OrthographicProjection(arg.w, arg.h, arg.n, arg.f))

Call_PerspectiveProjectionRadians ==
    Return("Matrix4x4::PerspectiveProjectionRadians",
           Matrix4x4_PerspectiveProjectionRadians(arg.fovx, arg.fovy, arg.n, arg.f))

Call_PerspectiveProjectionDegrees ==
    Return("Matrix4x4::PerspectiveProjectionDegrees",
           Matrix4x4_PerspectiveProjectionDegrees(arg.fovx, arg.fovy, arg.n, arg.f))

Call_Vector2_Max ==
    Return("Vector2::Max", [outVec |-> Vector2_Max(arg.a, arg.b),
                            ret |-> Vector2_MaxValue(arg.a, arg.b)])

Call_Vector2_Min ==
    Return("Vector2::Min", [outVec |-> Vector2_Min(arg.a, arg.b),
                            ret |-> Vector2_MinValue(arg.a, arg.b)])

Call_Vector3_Max ==
    Return("Vector3::Max", [ret |-> Vector3_Max(arg.a, arg.b)])

Call_Vector3_Min ==
    Return("Vector3::Min", [ret |-> Vector3_Min(arg.a, arg.b)])

Call_Quaternion_Conjugate ==
    Return("Quaternion::Conjugate",
           [this |-> arg.this, ret |-> Quaternion_Conjugate(arg.this)])

Call_Quaternion_MakeConjugate ==
    Return("Quaternion::MakeConjugate",
           [this |-> Quaternion_MakeConjugate(arg.this),
            ret |-> Quaternion_MakeConjugate(arg.this)])

Call_Quaternion_Inverse ==
    Return("Quaternion::Inverse",
           [this |-> arg.this, ret |-> Quaternion_Inverse(arg.this, SSE)])

Call_Quaternion_MakeInverse ==
    Return("Quaternion::MakeInverse",
           [this |-> Quaternion_MakeInverse(arg.this, SSE),
            ret |-> Quaternion_MakeInverse(arg.this, SSE)])

Call_Quaternion_GetAxisAngleRadians ==
    Return("Quaternion::GetAxisAngleRadians",
           Quaternion_GetAxisAngleRadians(arg.this, arg.axis, SSE))

\* RotationRadians(x, y, z, m): m after the call, whatever arg.m it held.
Call_RotationRadians ==
    Return("Matrix4x4::RotationRadians",
           [m |-> Matrix4x4_RotationRadians(arg.x, arg.y, arg.z)])

Call_RotationRadiansV ==
    Return("Matrix4x4::RotationRadians(Vector3)", [m |-> Matrix4x4_RotationRadiansV(arg.v)])

Call_MakeTranspose ==
    Return("Matrix4x4::MakeTranspose",
           [this |-> Matrix4x4_MakeTranspose(arg.this, SSE),
            ret |-> Matrix4x4_MakeTranspose(arg.this, SSE)])

Call_Transpose ==
    Return("Matrix4x4::Transpose",
           [this |-> arg.this, ret |-> Matrix4x4_Transpose(arg.this, SSE)])

Call_Transform3 ==
    Return("Matrix4x4::Transform(Vector3)",
           [this |-> arg.this, v |-> Matrix4x4_Transform3(arg.this, arg.v),
            ret |-> arg.this])

Call_Transform4 ==
    Return("Matrix4x4::Transform(Vector4)",
           [this |-> arg.this, v |-> Matrix4x4_Transform4(arg.this, arg.v),
            ret |-> arg.this])

Call_Quaternion_AxisAngleRadians ==
    Return("Quaternion::AxisAngleRadians",
           [outQuat |-> Quaternion_AxisAngleRadians(arg.axis, arg.radians)])

Call_Vector3_MagnitudeSquared ==
    Return("Vector3::MagnitudeSquared", [ret |-> Vector3_MagnitudeSquared(arg.this)])

Call_Vector3_Magnitude ==
    Return("Vector3::Magnitude", [ret |-> Vector3_Magnitude(arg.this)])

Call_Vector3_Dot ==
    Return("Vector3::Dot", [ret |-> Vector3_Dot(arg.a, arg.b)])

Call_Vector3_AngleRadians ==
    Return("Vector3::AngleRadians", [ret |-> Vector3_AngleRadians(arg.a, arg.b)])

Call_Matrix4x4_LookAtFromDirection ==
    Return("Matrix4x4::LookAtFromDirection",
           [m |-> Matrix4x4_LookAtFromDirection(arg.direction, arg.up)])

Call_Matrix4x4_LookAtFromPosition ==
    Return("Matrix4x4::LookAtFromPosition",
           [m |-> Matrix4x4_LookAtFromPosition(arg.from, arg.to, arg.up)])

Call_Quaternion_Normalize ==
    Return("Quaternion::Normalize",
           [this |-> Quaternion_Normalize(arg.this, SSE),
            ret |-> Quaternion_Normalize(arg.this, SSE)])

Call_Matrix4x4_AxisAngleRadians ==
    Return("Matrix4x4::AxisAngleRadians",
           [m |-> Matrix4x4_AxisAngleRadians(arg.a, arg.radians)])

Call_Quaternion_LookAtFromDirection ==
    Return("Quaternion::LookAtFromDirection",
           [outQuat |-> Quaternion_LookAtFromDirectionUp(arg.direction, arg.outQuat)])

Call_Quaternion_LookAtFromDirection_up ==
    Return("Quaternion::LookAtFromDirection(up)",
           [outQuat |-> Quaternion_LookAtFromDirection(arg.direction, arg.up, arg.outQuat)])

Call_Quaternion_LookAtFromPosition ==
    Return("Quaternion::LookAtFromPosition",
           [outQuat |-> Quaternion_LookAtFromPositionUp(arg.from, arg.to, arg.outQuat)])

Call_Quaternion_LookAtFromPosition_up ==
    Return("Quaternion::LookAtFromPosition(up)",
           [outQuat |-> Quaternion_LookAtFromPosition(arg.from, arg.to, arg.up, arg.outQuat)])

Next ==
    \/ Call_Quaternion_m
    \/ Call_Vector3_Normalize
    \/ Call_Vector3_Normalized
    \/ Call_Vector2_Normalize
    \/ Call_Vector2_Normalized
    \/ Call_Vector3_IsZero
    \/ Call_Vector3_IsNormalized
    \/ Call_Vector2_IsZero
    \/ Call_Vector2_IsNormalized
    \/ Call_RotationXDegrees
    \/ Call_RotationYDegrees
    \/ Call_RotationZDegrees
    \/ Call_RotationDegrees
    \/ Call_RotationDegreesV
    \/ Call_AxisAngleDegrees
    \/ Call_Vector2_AngleRadians
    \/ Call_Vector2_AngleDegrees
    \/ Call_Vector2_Lerp
    \/ Call_Vector3_Lerp
    \/ Call_Quaternion_Slerp
    \/ Call_Vector3_Cross
    \/ Call_Translation_Transform
    \/ Call_RotationZDegrees_Transform
    \/ Call_RotationZRadians_Transform    \/ Call_OrthographicProjection
    \/ Call_PerspectiveProjectionRadians
    \/ Call_PerspectiveProjectionDegrees    \/ Call_Vector2_Max
    \/ Call_Vector2_Min
    \/ Call_Vector3_Max
    \/ Call_Vector3_Min    \/ Call_Quaternion_Conjugate
    \/ Call_Quaternion_MakeConjugate
    \/ Call_Quaternion_Inverse
    \/ Call_Quaternion_MakeInverse    \/ Call_Quaternion_GetAxisAngleRadians    \/ Call_RotationRadians
    \/ Call_RotationRadiansV    \/ Call_MakeTranspose
    \/ Call_Transpose    \/ Call_Transform3
    \/ Call_Transform4    \/ Call_Quaternion_AxisAngleRadians    \/ Call_Vector3_MagnitudeSquared
    \/ Call_Vector3_Magnitude
    \/ Call_Vector3_Dot
    \/ Call_Vector3_AngleRadians    \/ Call_Matrix4x4_LookAtFromDirection
    \/ Call_Matrix4x4_LookAtFromPosition    \/ Call_Quaternion_Normalize    \/ Call_Matrix4x4_AxisAngleRadians    \/ Call_Quaternion_LookAtFromDirection
    \/ Call_Quaternion_LookAtFromDirection_up
    \/ Call_Quaternion_LookAtFromPosition
    \/ Call_Quaternion_LookAtFromPosition_up
Spec == Init /\ [][Next]_vars

Done(o) == pc = "done" /\ op = o

---------------------------------------------------------------------------
(* The claims.                                                             *)

QuatCall == "Quaternion::Quaternion(Matrix4x4)"

\* a + (b - a) * t, component by component.
LerpOf(a, b, t) == [i \in DOMAIN a |-> RAdd(a[i], RMul(RSub(b[i], a[i]), t))]

\* C1: for every unit quaternion q, Quaternion(Matrix4x4(q)) is q or -q,
\* component for component.
C1_RoundTrip ==
    Done(QuatCall) /\ arg.scale = <<R1, R1, R1>>
        => \/ res.this = arg.q
           \/ res.this = [i \in 1..4 |-> RNeg(arg.q[i])]

\* C2: whenever the magnitude of one of the first three rows is at or below
\* FloatEpsilon, the constructed quaternion is the identity, in both builds.
C2_DegenerateIsIdentity ==
    Done(QuatCall)
    /\ (\E i \in 1..3 : RLe(Sqrt(RAdd(RAdd(RMul(arg.mat[i][1], arg.mat[i][1]),
                                           RMul(arg.mat[i][2], arg.mat[i][2])),
                                      RMul(arg.mat[i][3], arg.mat[i][3]))),
                            FloatEpsilon))
        => res.this = <<R0, R0, R0, R1>>

SumSq3(v) == RAdd(RAdd(RMul(v[1], v[1]), RMul(v[2], v[2])), RMul(v[3], v[3]))

SumSq2(v) == RAdd(RMul(v[1], v[1]), RMul(v[2], v[2]))

Within(x, y, eps) == RLe(RSub(x, y), eps) /\ RLe(RSub(y, x), eps)

\* C3: for every Vector2 or Vector3 whose squared magnitude is not within
\* Epsilon of 0, the normalised vector has magnitude 1 within Epsilon.
C3_NormalizedIsUnit ==
    /\ Done("Vector3::Normalize") /\ ~Within(SumSq3(arg.this), R0, Vector3_Epsilon)
        => Within(Sqrt(SumSq3(res.this)), R1, Vector3_Epsilon)
    /\ Done("Vector3::Normalized") /\ ~Within(SumSq3(arg.this), R0, Vector3_Epsilon)
        => Within(Sqrt(SumSq3(res.ret)), R1, Vector3_Epsilon)
    /\ Done("Vector2::Normalize") /\ ~Within(SumSq2(arg.this), R0, Vector2_Epsilon)
        => Within(Sqrt(SumSq2(res.this)), R1, Vector2_Epsilon)
    /\ Done("Vector2::Normalized") /\ ~Within(SumSq2(arg.this), R0, Vector2_Epsilon)
        => Within(Sqrt(SumSq2(res.ret)), R1, Vector2_Epsilon)

\* C4: IsNormalized() is true exactly when the squared magnitude is within
\* Epsilon of 1, for Vector2 and Vector3; so no vector is both zero and
\* normalised.
C4_IsNormalizedTwoSided ==
    /\ Done("Vector3::IsNormalized")
        => /\ res.ret = Within(SumSq3(arg.this), R1, Vector3_Epsilon)
           /\ ~(res.ret /\ Vector3_IsZero(arg.this))
    /\ Done("Vector2::IsNormalized")
        => /\ res.ret = Within(SumSq2(arg.this), R1, Vector2_Epsilon)
           /\ ~(res.ret /\ Vector2_IsZero(arg.this))

\* C5: every degree-variant factory yields the matrix of its radian variant
\* called with degrees * Deg2Rad.
C5_DegreesWrapRadians ==
    /\ Done("Matrix4x4::RotationXDegrees")
        => res.m = Matrix4x4_RotationXRadians(RMul(arg.degrees, Deg2Rad))
    /\ Done("Matrix4x4::RotationYDegrees")
        => res.m = Matrix4x4_RotationYRadians(RMul(arg.degrees, Deg2Rad))
    /\ Done("Matrix4x4::RotationZDegrees")
        => res.m = Matrix4x4_RotationZRadians(RMul(arg.degrees, Deg2Rad))
    /\ Done("Matrix4x4::AxisAngleDegrees")
        => res.m = Matrix4x4_AxisAngleRadians(arg.axis, RMul(arg.degrees, Deg2Rad))
    /\ Done("Matrix4x4::RotationDegrees")
        => res.m = Matrix4x4_RotationRadians(RMul(arg.x, Deg2Rad), RMul(arg.y, Deg2Rad),
                                             RMul(arg.z, Deg2Rad))
    /\ Done("Matrix4x4::RotationDegrees(Vector3)")
        => res.m = Matrix4x4_RotationRadiansV(Vector3_MulF(arg.v, Deg2Rad))

\* C6: Vector2::AngleRadians(a, b) is atan2(|cross|, dot), in [0, pi] and
\* symmetric in a and b, and AngleDegrees(UnitX, UnitY) is +90.
C6_AngleNonNegative ==
    /\ Done("Vector2::AngleRadians")
        => /\ RLe(R0, res.ret) /\ RLe(res.ret, R1)
           /\ res.ret = ATan2(RAbs(Vector2_Cross(arg.a, arg.b)), Vector2_Dot(arg.a, arg.b))
           /\ res.ret = Vector2_AngleRadians(arg.b, arg.a)
    /\ Done("Vector2::AngleDegrees") /\ arg.a = <<R1, R0>> /\ arg.b = <<R0, R1>>
        => res.ret = I(90)

\* C7 (as claimed): Vector2::Lerp and Vector3::Lerp return a + (b - a)*t for
\* every t, with no special case.
C7_LerpNoSpecialCase ==
    /\ Done("Vector2::Lerp")
        => res.outVec = LerpOf(arg.a, arg.b, arg.t) /\ res.ret = LerpOf(arg.a, arg.b, arg.t)
    /\ Done("Vector3::Lerp") => res.ret = LerpOf(arg.a, arg.b, arg.t)

\* C7 (amended): Vector3::Lerp returns a + (b - a)*t for every t; Vector2::Lerp
\* returns a when t is within Epsilon of 0, b when t is within Epsilon of 1,
\* and a + (b - a)*t for every other t, with no clamping; so Lerp(a,b,0) = a,
\* Lerp(a,b,1) = b and Lerp(a,a,t) = a.
C7_LerpSpecialCasedEnds ==
    /\ Done("Vector3::Lerp")
        => /\ res.ret = LerpOf(arg.a, arg.b, arg.t)
           /\ (arg.t = R0 => res.ret = arg.a)
           /\ (arg.t = R1 => res.ret = arg.b)
           /\ (arg.a = arg.b => res.ret = arg.a)
    /\ Done("Vector2::Lerp")
        => /\ res.outVec =
                  IF Within(arg.t, R0, Vector2_Epsilon) THEN arg.a
                  ELSE IF Within(arg.t, R1, Vector2_Epsilon) THEN arg.b
                  ELSE LerpOf(arg.a, arg.b, arg.t)
           /\ res.ret = res.outVec
           /\ (arg.t = R0 => res.ret = arg.a)
           /\ (arg.t = R1 => res.ret = arg.b)
           /\ (arg.a = arg.b => res.ret = arg.a)

\* C7 witness: Vector2::Lerp returned a for a t near 0 at which
\* a + (b - a)*t differs from a.
C7_Witness ==
    /\ Done("Vector2::Lerp") /\ arg.t = TinyT /\ arg.a # arg.b
    /\ res.outVec = arg.a /\ LerpOf(arg.a, arg.b, arg.t) # arg.a

\* C8: Slerp writes a when t is 0, b when t is 1 and a when a = b, in that
\* order of tests and without running the polynomial path.
C8_SlerpFastPaths ==
    Done("Quaternion::Slerp")
        => /\ (arg.t = R0 => res.outQuat = arg.a /\ res.path = "t0")
           /\ (arg.t = R1 => res.outQuat = arg.b /\ res.path = "t1")
           /\ (arg.a = arg.b => res.outQuat = arg.a /\ res.path # "polynomial")
           /\ (arg.a = arg.b /\ arg.t \in {RHalf, RTwo, I(-1)} => res.path = "equal")

\* C8 witness: Slerp(a, b, 1) with a # b returned b through the test on t.
C8_Witness ==
    /\ Done("Quaternion::Slerp") /\ arg.t = R1 /\ arg.a # arg.b
    /\ res.outQuat = arg.b /\ res.path = "t1"

\* C9: Cross(a, b) = (ay*bz - az*by, az*bx - ax*bz, ax*by - ay*bx), it is
\* -Cross(b, a) in x, y, z, and Cross(v, v) is the zero vector.
C9_CrossAntisymmetric ==
    Done("Vector3::Cross")
        => LET a == arg.a
               b == arg.b
               c == res.ret
           IN  /\ c[1] = RSub(RMul(a[2], b[3]), RMul(a[3], b[2]))
               /\ c[2] = RSub(RMul(a[3], b[1]), RMul(a[1], b[3]))
               /\ c[3] = RSub(RMul(a[1], b[2]), RMul(a[2], b[1]))
               /\ \A i \in 1..3 : c[i] = RNeg(Vector3_Cross(b, a)[i])
               /\ (a = b => c[1] = R0 /\ c[2] = R0 /\ c[3] = R0)

\* C9 witness: a non-zero cross product of two vectors whose fourth lanes
\* are not zero.
C9_Witness ==
    /\ Done("Vector3::Cross") /\ arg.a[4] # R0 /\ arg.b[4] # R0
    /\ res.ret[1] # R0 /\ res.ret[2] # R0 /\ res.ret[3] # R0

\* C10: Translation(x, y, z).Transform(p) leaves p = (p.x + x, p.y + y,
\* p.z + z), and maps the origin to (x, y, z).
C10_TranslationMovesPoint ==
    Done("Matrix4x4::Translation.Transform")
        => /\ res.v[1] = RAdd(arg.v[1], arg.x)
           /\ res.v[2] = RAdd(arg.v[2], arg.y)
           /\ res.v[3] = RAdd(arg.v[3], arg.z)
           /\ (arg.v[1] = R0 /\ arg.v[2] = R0 /\ arg.v[3] = R0
                  => res.v[1] = arg.x /\ res.v[2] = arg.y /\ res.v[3] = arg.z)

\* C10 witness: a point off the origin moved by a translation along all
\* three axes.
C10_Witness ==
    /\ Done("Matrix4x4::Translation.Transform")
    /\ arg.x # R0 /\ arg.y # R0 /\ arg.z # R0
    /\ arg.v[1] # R0 /\ arg.v[2] # R0 /\ arg.v[3] # R0
    /\ res.v[1] = RAdd(arg.v[1], arg.x)

\* The x, y, z of a Vector3.
XYZ(v) == <<v[1], v[2], v[3]>>

\* C11: RotationZDegrees(90).Transform(v) maps (1, 0, 0) to (0, 1, 0);
\* RotationZRadians(r) maps (1, 0, 0) to (cos r, sin r, 0) and leaves the z
\* of every vector unchanged.
C11_RotationZTurnsXToY ==
    /\ Done("Matrix4x4::RotationZDegrees.Transform")
        => /\ res.v[3] = arg.v[3]
           /\ (arg.degrees = I(90) /\ XYZ(arg.v) = <<R1, R0, R0>>
                  => XYZ(res.v) = <<R0, R1, R0>>)
    /\ Done("Matrix4x4::RotationZRadians.Transform")
        => /\ res.v[3] = arg.v[3]
           /\ (XYZ(arg.v) = <<R1, R0, R0>>
                  => XYZ(res.v) = <<Cos(arg.radians), Sin(arg.radians), R0>>)

\* C11 witness: the quarter turn about z has moved (1, 0, 0) to (0, 1, 0).
C11_Witness ==
    /\ Done("Matrix4x4::RotationZDegrees.Transform")
    /\ arg.degrees = I(90) /\ XYZ(arg.v) = <<R1, R0, R0>>
    /\ XYZ(res.v) = <<R0, R1, R0>>

\* C12: with the assertion hook active, OrthographicProjection and
\* PerspectiveProjection each report a diagnostic when the width or the
\* height they are given is zero and when near = far, and report nothing on
\* any other input.
C12_ProjectionsReportSingular ==
    /\ Done("Matrix4x4::OrthographicProjection")
        => (res.report # "none" <=> (arg.w = R0 \/ arg.h = R0 \/ arg.n = arg.f))
    /\ Done("Matrix4x4::PerspectiveProjectionRadians")
       \/ Done("Matrix4x4::PerspectiveProjectionDegrees")
        => (res.report # "none" <=> (arg.fovx = R0 \/ arg.fovy = R0 \/ arg.n = arg.f))

\* C13: Max(a, b) is exactly a or exactly b, an operand whose squared
\* magnitude is at least the other's, and Min(a, b) is exactly a or exactly
\* b, an operand whose squared magnitude is at most the other's, for Vector2
\* and Vector3; the two forms of Vector2::Max and Min agree.
C13_MaxMinSelectOperand ==
    /\ Done("Vector3::Max")
        => /\ res.ret \in {arg.a, arg.b}
           /\ RGe(SumSq3(res.ret), SumSq3(arg.a)) /\ RGe(SumSq3(res.ret), SumSq3(arg.b))
    /\ Done("Vector3::Min")
        => /\ res.ret \in {arg.a, arg.b}
           /\ RLe(SumSq3(res.ret), SumSq3(arg.a)) /\ RLe(SumSq3(res.ret), SumSq3(arg.b))
    /\ Done("Vector2::Max")
        => /\ res.outVec \in {arg.a, arg.b}
           /\ RGe(SumSq2(res.outVec), SumSq2(arg.a))
           /\ RGe(SumSq2(res.outVec), SumSq2(arg.b))
           /\ res.ret = res.outVec
    /\ Done("Vector2::Min")
        => /\ res.outVec \in {arg.a, arg.b}
           /\ RLe(SumSq2(res.outVec), SumSq2(arg.a))
           /\ RLe(SumSq2(res.outVec), SumSq2(arg.b))
           /\ res.ret = res.outVec

\* C13 witness: Max has returned the longer operand although the shorter
\* one has the larger x.
C13_Witness ==
    /\ Done("Vector3::Max")
    /\ RGt(SumSq3(arg.a), SumSq3(arg.b)) /\ RGt(arg.b[1], arg.a[1])
    /\ res.ret = arg.a

SumSq4(q) == RAdd(SumSq3(q), RMul(q[4], q[4]))

\* C14: the conjugate of the conjugate of q is q; on a unit quaternion
\* Inverse() is Conjugate() and the inverse of the inverse is q; Conjugate()
\* and Inverse() leave the receiver as it was, MakeConjugate() and
\* MakeInverse() leave their result in it.
C14_ConjugateInverseInvolutions ==
    /\ Done("Quaternion::Conjugate")
        => /\ res.this = arg.this
           /\ res.ret = <<RNeg(arg.this[1]), RNeg(arg.this[2]), RNeg(arg.this[3]),
                          arg.this[4]>>
           /\ Quaternion_Conjugate(res.ret) = arg.this
    /\ Done("Quaternion::Inverse")
        => /\ res.this = arg.this
           /\ (SumSq4(arg.this) = R1
                  => /\ res.ret = Quaternion_Conjugate(arg.this)
                     /\ Quaternion_Inverse(res.ret, SSE) = arg.this)
    /\ Done("Quaternion::MakeConjugate")
        => res.this = Quaternion_Conjugate(arg.this) /\ res.ret = res.this
    /\ Done("Quaternion::MakeInverse")
        => res.this = Quaternion_Inverse(arg.this, SSE) /\ res.ret = res.this

\* C14 witness: the inverse of a unit quaternion with no zero component is
\* its conjugate, and differs from it.
C14_Witness ==
    /\ Done("Quaternion::Inverse") /\ SumSq4(arg.this) = R1
    /\ \A i \in 1..4 : arg.this[i] # R0
    /\ res.ret = Quaternion_Conjugate(arg.this) /\ res.ret # arg.this

\* C15: the XO_SSE build and the scalar build compute the same result:
\* GetAxisAngleRadians writes the same x, y, z of the axis and the same
\* angle in both, and Quaternion(Matrix4x4) yields the same quaternion in
\* both, for every matrix.
C15_BuildsAgree ==
    /\ Done("Quaternion::GetAxisAngleRadians")
        => /\ XYZ(Quaternion_GetAxisAngleRadians(arg.this, arg.axis, TRUE).axis)
                  = XYZ(Quaternion_GetAxisAngleRadians(arg.this, arg.axis, FALSE).axis)
           /\ Quaternion_GetAxisAngleRadians(arg.this, arg.axis, TRUE).radians
                  = Quaternion_GetAxisAngleRadians(arg.this, arg.axis, FALSE).radians
    /\ Done(QuatCall)
        => Quaternion_m(arg.mat, TRUE, arg.uninit) = Quaternion_m(arg.mat, FALSE, arg.uninit)

\* The product Ry(y) * (Rx(x) * Rz(z)), element by element.
YXZ(x, y, z) ==
    [i \in 1..4 |-> [j \in 1..4 |->
        LET inner == [k \in 1..4 |->
                RAdd(RAdd(RMul(Matrix4x4_RotationXRadians(x)[k][1],
                               Matrix4x4_RotationZRadians(z)[1][j]),
                          RMul(Matrix4x4_RotationXRadians(x)[k][2],
                               Matrix4x4_RotationZRadians(z)[2][j])),
                     RAdd(RMul(Matrix4x4_RotationXRadians(x)[k][3],
                               Matrix4x4_RotationZRadians(z)[3][j]),
                          RMul(Matrix4x4_RotationXRadians(x)[k][4],
                               Matrix4x4_RotationZRadians(z)[4][j])))]
        IN  RAdd(RAdd(RMul(Matrix4x4_RotationYRadians(y)[i][1], inner[1]),
                      RMul(Matrix4x4_RotationYRadians(y)[i][2], inner[2])),
                 RAdd(RMul(Matrix4x4_RotationYRadians(y)[i][3], inner[3]),
                      RMul(Matrix4x4_RotationYRadians(y)[i][4], inner[4])))]]

\* C16: RotationRadians(x, y, z), in both overloads, leaves in the out
\* matrix exactly Ry(y) * (Rx(x) * Rz(z)), whatever the matrix held before.
C16_RotationRadiansIsYXZ ==
    /\ Done("Matrix4x4::RotationRadians") => res.m = YXZ(arg.x, arg.y, arg.z)
    /\ Done("Matrix4x4::RotationRadians(Vector3)")
        => res.m = YXZ(arg.v[1], arg.v[2], arg.v[3])

\* C16 witness: quarter turns about x and y, for which the order of the
\* product matters, over an out matrix that held other values.
C16_Witness ==
    /\ Done("Matrix4x4::RotationRadians")
    /\ arg.x = RHalf /\ arg.y = RHalf /\ arg.m = Matrix4x4_Counting
    /\ res.m = YXZ(arg.x, arg.y, arg.z)
    /\ res.m # Matrix4x4_Mul(Matrix4x4_RotationXRadians(arg.x),
                             Matrix4x4_RotationYRadians(arg.y))

\* C17: MakeTranspose() leaves M'[i][j] = M[j][i] for all i, j, and a second
\* MakeTranspose() restores M; Transpose() returns the transposed copy and
\* leaves the receiver as it was.
C17_TransposeSwapsPairs ==
    /\ Done("Matrix4x4::MakeTranspose")
        => /\ \A i \in 1..4 : \A j \in 1..4 : res.this[i][j] = arg.this[j][i]
           /\ Matrix4x4_MakeTranspose(res.this, SSE) = arg.this
           /\ res.ret = res.this
    /\ Done("Matrix4x4::Transpose")
        => /\ \A i \in 1..4 : \A j \in 1..4 : res.ret[i][j] = arg.this[j][i]
           /\ res.this = arg.this

\* C17 witness: the scalar build has transposed a matrix of which no two
\* elements are equal.
C17_Witness ==
    /\ Done("Matrix4x4::MakeTranspose") /\ ~SSE /\ arg.this = Matrix4x4_Counting
    /\ res.this[3][4] = I(15) /\ res.this[4][3] = I(12) /\ res.this # arg.this

\* Row i of m times the column (x, y, z, w).
RowDot(m, i, x, y, z, w) ==
    RAdd(RAdd(RAdd(RMul(m[i][1], x), RMul(m[i][2], y)), RMul(m[i][3], z)),
         RMul(m[i][4], w))

\* C18: Transform(v), for a Vector3 and for a Vector4, overwrites v with
\* M * v (the Vector3 widened with w = 1), leaves M as it was and returns a
\* reference to M.
C18_TransformOverwritesVector ==
    /\ Done("Matrix4x4::Transform(Vector3)")
        => /\ \A i \in 1..3 :
                res.v[i] = RowDot(arg.this, i, arg.v[1], arg.v[2], arg.v[3], R1)
           /\ res.this = arg.this /\ res.ret = arg.this
    /\ Done("Matrix4x4::Transform(Vector4)")
        => /\ \A i \in 1..4 :
                res.v[i] = RowDot(arg.this, i, arg.v[1], arg.v[2], arg.v[3], arg.v[4])
           /\ res.this = arg.this /\ res.ret = arg.this

\* C18 witness: a Vector4 has been transformed by a matrix that is not
\* symmetric, and has changed.
C18_Witness ==
    /\ Done("Matrix4x4::Transform(Vector4)") /\ arg.this = Matrix4x4_Counting
    /\ arg.v = <<R1, R0, R0, R1>> /\ res.v = <<I(5), I(13), I(21), I(29)>>
    /\ res.this = Matrix4x4_Counting

\* C19: Quaternion::AxisAngleRadians(axis, radians, out) leaves in out the
\* vector part Normalized(axis) * sin(radians / 2) and the scalar part
\* cos(radians), the cosine of the full angle.
C19_AxisAngleScalarIsFullCosine ==
    Done("Quaternion::AxisAngleRadians")
        => /\ \A i \in 1..3 :
                res.outQuat[i] = RMul(Vector3_Normalized(arg.axis)[i],
                                      Sin(RDiv(arg.radians, RTwo)))
           /\ res.outQuat[4] = Cos(arg.radians)

\* C19 witness: a half turn about an axis of length 2, where the cosines of
\* the angle and of its half differ.
C19_Witness ==
    /\ Done("Quaternion::AxisAngleRadians")
    /\ XYZ(arg.axis) = <<R0, R0, I(2)>> /\ arg.radians = R1
    /\ res.outQuat = <<R0, R0, R1, I(-1)>>

\* The vector with its fourth lane cleared.
Lane3Cleared(v) == <<v[1], v[2], v[3], R0>>

Dot3(a, b) == RAdd(RAdd(RMul(a[1], b[1]), RMul(a[2], b[2])), RMul(a[3], b[3]))

\* C20: whatever the fourth lanes hold, MagnitudeSquared(a) is
\* ax*ax + ay*ay + az*az and Dot(a, b) is ax*bx + ay*by + az*bz, and
\* Magnitude, AngleRadians, IsZero, Max and Min are what they are on the
\* x, y, z of their operands alone.
C20_FourthLaneMasked ==
    /\ Done("Vector3::MagnitudeSquared") => res.ret = SumSq3(arg.this)
    /\ Done("Vector3::Dot") => res.ret = Dot3(arg.a, arg.b)
    /\ Done("Vector3::Magnitude") => res.ret = Sqrt(SumSq3(arg.this))
    /\ Done("Vector3::AngleRadians")
        => res.ret = Vector3_AngleRadians(Lane3Cleared(arg.a), Lane3Cleared(arg.b))
    /\ Done("Vector3::IsZero") => res.ret = RLe(SumSq3(arg.this), Vector3_Epsilon)
    /\ Done("Vector3::Max")
        => res.ret = IF RGe(SumSq3(arg.a), SumSq3(arg.b)) THEN arg.a ELSE arg.b
    /\ Done("Vector3::Min")
        => res.ret = IF RLe(SumSq3(arg.a), SumSq3(arg.b)) THEN arg.a ELSE arg.b

\* C20 witness: the squared magnitude of Vector3(2), whose four lanes hold
\* 2, is 12.
C20_Witness ==
    /\ Done("Vector3::MagnitudeSquared")
    /\ arg.this = Vector3_f(I(2)) /\ arg.this[4] = I(2) /\ res.ret = I(12)

\* Column j of the rotation block of m, as a Vector3.
Axis(m, j) == Vector3_xyz(m[1][j], m[2][j], m[3][j])

\* The three columns of m are the axes of an orthonormal basis, built from
\* up as a look-at basis is.
LookAtBasis(m, up) ==
    /\ SumSq3(Axis(m, 3)) = R1
    /\ XYZ(Axis(m, 1)) = XYZ(Vector3_Normalized(Vector3_Cross(up, Axis(m, 3))))
    /\ SumSq3(Axis(m, 1)) = R1
    /\ XYZ(Axis(m, 2)) = XYZ(Vector3_Cross(Axis(m, 3), Axis(m, 1)))
    /\ Dot3(Axis(m, 1), Axis(m, 2)) = R0
    /\ Dot3(Axis(m, 2), Axis(m, 3)) = R0
    /\ Dot3(Axis(m, 3), Axis(m, 1)) = R0

\* C21: for every non-zero direction, of any length, and every up not
\* parallel to it, LookAtFromDirection and LookAtFromPosition write a forward
\* axis of unit length, the side axis Normalized(Cross(up, forward)) and the
\* up axis Cross(forward, side), mutually orthogonal.
C21_LookAtOrthonormal ==
    /\ Done("Matrix4x4::LookAtFromDirection")
       /\ SumSq3(arg.direction) # R0
       /\ SumSq3(Vector3_Cross(arg.up, arg.direction)) # R0
        => LookAtBasis(res.m, arg.up)
    /\ Done("Matrix4x4::LookAtFromPosition")
       /\ SumSq3(Vector3_Sub(arg.to, arg.from)) # R0
       /\ SumSq3(Vector3_Cross(arg.up, Vector3_Sub(arg.to, arg.from))) # R0
        => LookAtBasis(res.m, arg.up)

\* C22: Normalize() leaves all four components as they were when the
\* squared magnitude is within Epsilon of 1 or the magnitude within Epsilon
\* of 0, and MakeInverse() leaves them as they were, not conjugated, when
\* the squared magnitude is within Epsilon of 0; when either divides, its
\* divisor is not within Epsilon of 0.
C22_DegeneratePassThrough ==
    /\ Done("Quaternion::Normalize")
        => /\ (CloseEnough(SumSq4(arg.this), R1, Quaternion_Epsilon(SSE))
                  \/ CloseEnough(Sqrt(SumSq4(arg.this)), R0, Quaternion_Epsilon(SSE)))
                => res.this = arg.this
           /\ res.this # arg.this
                => /\ ~CloseEnough(Sqrt(SumSq4(arg.this)), R0, Quaternion_Epsilon(SSE))
                   /\ res.this = Vector4_DivF(arg.this, Sqrt(SumSq4(arg.this)))
    /\ Done("Quaternion::MakeInverse")
        => /\ CloseEnough(SumSq4(arg.this), R0, Quaternion_Epsilon(SSE))
                => res.this = arg.this
           /\ res.this \notin {arg.this, Quaternion_Conjugate(arg.this)}
                => /\ ~CloseEnough(SumSq4(arg.this), R0, Quaternion_Epsilon(SSE))
                   /\ res.this = Vector4_DivF(Quaternion_Conjugate(arg.this),
                                              SumSq4(arg.this))

\* C22 witness: the scalar build has left a quaternion of magnitude 2^-12
\* as it was, its conjugate being another quaternion.
C22_Witness ==
    /\ Done("Quaternion::MakeInverse") /\ ~SSE
    /\ arg.this = <<Tiny, R0, R0, R0>> /\ res.this = arg.this
    /\ res.this # Quaternion_Conjugate(arg.this)

\* C23: for every angle r, AxisAngleRadians(UnitX, r) is RotationXRadians(r),
\* AxisAngleRadians(UnitY, r) is RotationYRadians(r) and
\* AxisAngleRadians(UnitZ, r) is RotationZRadians(r), element for element.
C23_AxisAngleAgreesWithAxisFactories ==
    Done("Matrix4x4::AxisAngleRadians")
        => /\ arg.a = Vector3_UnitX => res.m = Matrix4x4_RotationXRadians(arg.radians)
           /\ arg.a = Vector3_UnitY => res.m = Matrix4x4_RotationYRadians(arg.radians)
           /\ arg.a = Vector3_UnitZ => res.m = Matrix4x4_RotationZRadians(arg.radians)

\* C24: after each of the four Quaternion look-at factories outQuat holds
\* a value that the arguments determine: the call leaves the same value in
\* outQuat whatever outQuat held before it.
C24_LookAtAssignsOutQuat ==
    /\ Done("Quaternion::LookAtFromDirection(up)")
        => \A prior \in PriorQuaternions :
               res.outQuat = Quaternion_LookAtFromDirection(arg.direction, arg.up, prior)
    /\ Done("Quaternion::LookAtFromDirection")
        => \A prior \in PriorQuaternions :
               res.outQuat = Quaternion_LookAtFromDirectionUp(arg.direction, prior)
    /\ Done("Quaternion::LookAtFromPosition(up)")
        => \A prior \in PriorQuaternions :
               res.outQuat = Quaternion_LookAtFromPosition(arg.from, arg.to, arg.up, prior)
    /\ Done("Quaternion::LookAtFromPosition")
        => \A prior \in PriorQuaternions :
               res.outQuat = Quaternion_LookAtFromPositionUp(arg.from, arg.to, prior)

=============================================================================
